---- MODULE Spec2Model ----
(***************************************************************************)
(* Model of the norrona-alert monitoring pipeline: the differ, the cycle   *)
(* scheduler with the snapshot store, the channel notifiers with their     *)
(* dispatch registry, and the outlet scraper.                              *)
(*                                                                         *)
(* Each component has its own specification over its own variables; the    *)
(* variables of the other components stay at their initial value.          *)
(*   Spec       : AlertScheduler cycles over both locales with the store    *)
(*   SpecDiff   : ProductDiffer.diff as a pure function of (old, new)      *)
(*   SpecNotify : one NotifierRegistry.notify call, or one notifier's send *)
(*   SpecScrape : one scraper instance called repeatedly as time passes    *)
(*   SpecMatch  : PreferenceMatcher.match as a pure function               *)
(*   SpecSize   : _normalise_size on pairs of size labels                  *)
(*   SpecCycle  : start, stop and trigger_now around the cycles            *)
(*   SpecTerm   : one cycle call by call, every call returning or failing  *)
(*   SpecStore  : the snapshot table over successive and overlapping runs  *)
(*   SpecAuth   : verification requests for one magic-link token           *)
(*   SpecParse  : parse_products and _parse_price as functions             *)
(***************************************************************************)
EXTENDS Integers, Sequences, FiniteSets, TLC

(***************************************************************************)
(* Data model (contracts/models.py)                                        *)
(***************************************************************************)

\* Locale enum.
EN_GB == "en-GB"
NB_NO == "nb-NO"
Locales == {EN_GB, NB_NO}

\* ChangeType enum (NEW, RESTOCK, PRICE_DROP).
CT_NEW == "new"
CT_RESTOCK == "restock"
CT_PRICE_DROP == "price_drop"

\* Value domains of the snapshots the model enumerates.
Urls == {"u1", "u2"}
Names == {"n1", "n2"}
Prices == {1, 2}
SizeLabels == {"S", "M"}
Categories == {"Jackets"}

\* ProductSnapshot: available_sizes is kept as the set the differ and the
\* matcher turn the list into (set(p.available_sizes)); the fields the
\* pipeline only carries along (original price, discount, image, timestamp)
\* are left out.
ProductSnapshot ==
    [url : Urls, locale : Locales, name : Names, price : Prices,
     available_sizes : SUBSET SizeLabels, category : Categories]

\* Python's None for ProductChange.previous_state.
None == [url |-> "None"]

\* ProductChange(product, change_type, previous_state, new_state).
ProductChange(product, change_type, previous_state) ==
    [product |-> product, change_type |-> change_type,
     previous_state |-> previous_state, new_state |-> product]

\* Bounds on the lists given to the differ.
MaxOld == 2
MaxNew == 1

\* All sequences over S of length at most n.
SeqUpTo(S, n) == UNION {[1..k -> S] : k \in 0..n}

VARIABLES
    d_old,        \* differ: the `old` argument
    d_new,        \* differ: the `new` argument
    d_changes,    \* differ: the returned list
    d_pc          \* differ: "call" before diff ran, "done" after

VARIABLES
    store,        \* product_snapshots table: the committed rows
    session,      \* rows as the open session sees them after bulk_upsert's flush
    pc,           \* position of the cycle job (see the scheduler section)
    li,           \* index into SchedulerLocales of the locale being processed
    new_products, \* _process_locale: the list scrape returned
    old_products, \* _process_locale: the previous snapshots read from the store
    changes,      \* _process_locale: the differ's result
    users,        \* _process_locale: the subscribers read from the directory
    ui,           \* index of the subscriber the loop is at
    alerts,       \* the matcher's result for that subscriber
    ai,           \* index of the alert being dispatched
    entered,      \* history: locales whose _process_locale this cycle has called
    failed,       \* history: locales whose _process_locale raised in this cycle
    stages,       \* history: stages the current _process_locale went through
    committed,    \* history: the current _process_locale has committed
    escaped,      \* history: an exception left _run_cycle
    lost,         \* history: locales whose last committing cycle raised after its commit
    matched,      \* history: the users this _process_locale called the matcher for
    dispatched    \* history: the (user, alert) pairs this _process_locale passed to notify

VARIABLES
    n_user,       \* notifier: the `user` argument (devices, stored preferences)
    n_entry,      \* notifier: what is called, "notify" or one channel's send
    n_pc,         \* registry: "call", "await", "done", "raised"; "direct" for a send call
    n_tasks,      \* registry: the channels of the `tasks` dict, in creation order
    n_wait,       \* registry: index into n_tasks of the task being awaited
    n_results,    \* registry: the `results` dict
    n_task,       \* per channel: the position of its send coroutine
    n_sends,      \* history: per channel, how many times send was invoked
    n_dev,        \* history: per device, who attempted it, provider calls, outcome
    n_mail_calls, \* history: calls of the mail provider
    n_mail_sleeps \* history: the delays slept between the calls of the mail provider

VARIABLES
    s_pc,               \* scraper: position inside scrape
    s_now,              \* scraper: the monotonic clock, in seconds
    s_last_scrape_time, \* scraper: _last_scrape_time, 0 before the first full scrape
    s_last_request_time, \* scraper: _last_request_time
    s_robots_checked,   \* scraper: _robots_checked
    s_robots_allowed,   \* scraper: what the cached _robots_parser answers
    s_attempt,          \* scraper: _fetch_html's loop variable
    s_result,           \* scraper: the list scrape returned
    s_calls,            \* history: number of scrape calls made
    s_failures,         \* history: failed page requests of the current call
    s_exit,             \* history: the statement through which the current call ended
    s_start,            \* history: the time at which the current call started
    s_periodic,         \* history: the current call started one interval after the call before it
    s_done,             \* history: the time at which the last full scrape completed
    s_prior,            \* history: s_done as it was when the current call started
    s_out,              \* history: the outbound requests of the current call, by kind
    s_prev_out,         \* history: kind and start time of the last outbound request
    s_gap,              \* history: kinds of, and seconds between, the last two outbound requests
    s_policy,           \* history: what the robots policy request yielded
    s_robots_requests,  \* history: robots policy requests the instance has issued
    s_sleeps,           \* history: the backoff sleeps of the current call, in seconds
    s_light,            \* history: what the current call's _fetch_html returned, once parsed
    s_render_calls,     \* history: calls of _fetch_with_playwright in the current call
    s_render_html       \* history: the markup the current call's rendering returned

VARIABLES
    m_changes,     \* matcher: the `changes` argument
    m_preferences, \* matcher: the `preferences` argument
    m_user_id,     \* matcher: the `user_id` argument
    m_alerts,      \* matcher: the returned list
    m_pc           \* matcher: "call" before match ran, "done" after

VARIABLES
    z_sizes,       \* size normalisation: the two labels given
    z_normalised,  \* size normalisation: _normalise_size of each
    z_again,       \* size normalisation: _normalise_size of each result
    z_pc           \* size normalisation: "call", "once", "twice"

VARIABLES
    c_state,            \* driver: "created", "running" (after start), "shutdown" (after stop)
    c_now,              \* driver: the clock, in minutes
    c_started_at,       \* history: the time of start()
    c_next_run_time,    \* driver: next_run_time of the job alert_cycle
    c_firings,          \* history: how many times the job has fired
    c_triggers,         \* history: how many times trigger_now was called
    c_pc,               \* cycle: "idle", or the await the cycle in flight is suspended on
    c_li,               \* cycle: index of the locale being processed
    c_source,           \* history: what started the last cycle, "job" or "manual"
    c_last_scrape_time, \* scrapers: _last_scrape_time of each locale's instance
    c_entered,          \* history: locales whose scrape the last cycle has called
    c_throttled,        \* history: locales whose scrape the interval test cut short
    c_ended,            \* history: how the last cycle ended, "complete" or "cancelled"
    c_cancelled_at      \* history: the await at which a cycle was cancelled

VARIABLES
    p_kind,      \* parsing: what is called, "page" (parse_products) or "text" (_parse_price)
    p_html,      \* parsing: the cards of the page given to parse_products
    p_products,  \* parsing: the list parse_products returned
    p_text,      \* parsing: the text given to _parse_price
    p_price,     \* parsing: the number _parse_price returned
    p_pc         \* parsing: "call" before the function ran, "done" after

VARIABLES
    a_now,       \* sign-in: the clock, in minutes
    a_row,       \* sign-in: the committed magic_link_tokens row of the token (used, expires_at)
    a_pc,        \* sign-in: each verification request's position
    a_lock,      \* sign-in: the request whose flushed update of the row is not committed yet, or 0
    a_accepted,  \* history: the requests verify_magic_link returned a user to
    a_verdict_at \* history: the time of each request's expiry test, 0 before it

VARIABLES
    t_rows,       \* table: the committed rows of product_snapshots
    t_next_id,    \* table: stands for uuid.uuid4(), the next fresh row id
    t_started,    \* history: how many _process_locale runs have scraped; also their scraped_at
    t_run,        \* per run in flight: its position and the locals of _process_locale
    t_persisted,  \* history: the list scraped by the last run that committed
    t_event       \* history: how the last finished run ended, and where

VARIABLES
    e_pc,        \* one cycle: the call _run_cycle is at, "done" after its last statement
    e_li,        \* one cycle: index of the locale being processed
    e_checked,   \* one cycle: per locale, _robots_checked of its scraper
    e_attempt,   \* one cycle: the loop variable of _fetch_html
    e_robots,    \* history: robots requests made for the current locale
    e_pages,     \* history: page requests made for the current locale
    e_renders,   \* history: rendering requests made for the current locale
    e_users,     \* one cycle: users left in the loop over users
    e_alerts,    \* one cycle: alerts left in the loop over the user's alerts
    e_target,    \* one cycle: per delivery target of the alert, "none", "pending", "returned"
    e_calls,     \* one cycle: per delivery target, provider calls made for the alert being sent
    e_most,      \* history: the most provider calls one target of one alert has had
    e_ended      \* history: the locales whose _process_locale has ended

diffVars == <<d_old, d_new, d_changes, d_pc>>
schedVars == <<store, session, pc, li, new_products, old_products, changes,
               users, ui, alerts, ai, entered, failed, stages, committed, escaped, lost,
               matched, dispatched>>
notifyVars == <<n_user, n_entry, n_pc, n_tasks, n_wait, n_results, n_task,
                n_sends, n_dev, n_mail_calls, n_mail_sleeps>>
scrapeVars == <<s_pc, s_now, s_last_scrape_time, s_last_request_time,
                s_robots_checked, s_robots_allowed, s_attempt, s_result, s_calls,
                s_failures, s_exit, s_start, s_periodic, s_done, s_prior, s_out, s_prev_out,
                s_gap, s_policy, s_robots_requests, s_sleeps, s_light,
                s_render_calls, s_render_html>>
matchVars == <<m_changes, m_preferences, m_user_id, m_alerts, m_pc>>
sizeVars == <<z_sizes, z_normalised, z_again, z_pc>>
cycleVars == <<c_state, c_now, c_started_at, c_next_run_time, c_firings, c_triggers,
               c_pc, c_li, c_source, c_last_scrape_time, c_entered, c_throttled,
               c_ended, c_cancelled_at>>
parseVars == <<p_kind, p_html, p_products, p_text, p_price, p_pc>>
authVars == <<a_now, a_row, a_pc, a_lock, a_accepted, a_verdict_at>>
storeVars == <<t_rows, t_next_id, t_started, t_run, t_persisted, t_event>>
termVars == <<e_pc, e_li, e_checked, e_attempt, e_robots, e_pages, e_renders,
               e_users, e_alerts, e_target, e_calls, e_most, e_ended>>
\* The variables outside each component, which its actions leave alone.
outsideSched == <<diffVars, notifyVars, scrapeVars, matchVars, sizeVars, cycleVars, parseVars, authVars, storeVars, termVars>>
outsideDiff == <<schedVars, notifyVars, scrapeVars, matchVars, sizeVars, cycleVars, parseVars, authVars, storeVars, termVars>>
outsideNotify == <<diffVars, schedVars, scrapeVars, matchVars, sizeVars, cycleVars, parseVars, authVars, storeVars, termVars>>
outsideScrape == <<diffVars, schedVars, notifyVars, matchVars, sizeVars, cycleVars, parseVars, authVars, storeVars, termVars>>
outsideMatch == <<diffVars, schedVars, notifyVars, scrapeVars, sizeVars, cycleVars, parseVars, authVars, storeVars, termVars>>
outsideSize == <<diffVars, schedVars, notifyVars, scrapeVars, matchVars, cycleVars, parseVars, authVars, storeVars, termVars>>
outsideCycle == <<diffVars, schedVars, notifyVars, scrapeVars, matchVars, sizeVars, parseVars, authVars, storeVars, termVars>>
outsideParse == <<diffVars, schedVars, notifyVars, scrapeVars, matchVars, sizeVars, cycleVars, authVars, storeVars, termVars>>
outsideAuth == <<diffVars, schedVars, notifyVars, scrapeVars, matchVars, sizeVars, cycleVars, parseVars, storeVars, termVars>>
outsideStore == <<diffVars, schedVars, notifyVars, scrapeVars, matchVars, sizeVars, cycleVars, parseVars, authVars, termVars>>
outsideTerm == <<diffVars, schedVars, notifyVars, scrapeVars, matchVars, sizeVars, cycleVars, parseVars, authVars, storeVars>>
vars == <<diffVars, schedVars, notifyVars, scrapeVars, matchVars, sizeVars, cycleVars, parseVars, authVars, storeVars, termVars>>

\* The set of the elements of a sequence.
Range(seq) == {seq[i] : i \in 1..Len(seq)}

(***************************************************************************)
(* ProductDiffer (differ/differ.py)                                        *)
(***************************************************************************)

\* old_by_url = {p.url: p for p in old}, then old_by_url.get(new_product.url):
\* the index is keyed by the URL alone and a later entry of `old` replaces an
\* earlier one with the same URL.
old_by_url(old, p) ==
    LET hits == {i \in 1..Len(old) : old[i].url = p.url}
    IN IF hits = {} THEN None
       ELSE old[CHOOSE i \in hits : \A j \in hits : j <= i]

\* Mutant of diff_one: the price check is <= instead of <.
diff_one_price_le(old, new_product) ==
    LET old_product == old_by_url(old, new_product)
    IN IF old_product = None
       THEN <<ProductChange(new_product, CT_NEW, None)>>
       ELSE LET restocked == new_product.available_sizes \ old_product.available_sizes
            IN (IF restocked # {}
                THEN <<ProductChange(new_product, CT_RESTOCK, old_product)>>
                ELSE <<>>)
               \o
               (IF new_product.price <= old_product.price
                THEN <<ProductChange(new_product, CT_PRICE_DROP, old_product)>>
                ELSE <<>>)

\* The body of the loop over `new` for one new_product.
diff_one(old, new_product) ==
    LET old_product == old_by_url(old, new_product)
    IN IF old_product = None
       THEN <<ProductChange(new_product, CT_NEW, None)>>
       ELSE LET restocked == new_product.available_sizes \ old_product.available_sizes
            IN (IF restocked # {}
                THEN <<ProductChange(new_product, CT_RESTOCK, old_product)>>
                ELSE <<>>)
               \o
               (IF new_product.price < old_product.price
                THEN <<ProductChange(new_product, CT_PRICE_DROP, old_product)>>
                ELSE <<>>)

\* diff(old, new): the changes of every product of `new`, in the order of `new`.
RECURSIVE diff(_, _)
diff(old, new) ==
    IF new = <<>> THEN <<>>
    ELSE diff_one(old, Head(new)) \o diff(old, Tail(new))

DiffInit ==
    /\ d_old \in SeqUpTo(ProductSnapshot, MaxOld)
    /\ d_new \in SeqUpTo(ProductSnapshot, MaxNew)
    /\ d_changes = <<>>
    /\ d_pc = "call"

DiffIdle ==
    /\ d_old = <<>>
    /\ d_new = <<>>
    /\ d_changes = <<>>
    /\ d_pc = "idle"

DiffCall ==
    /\ d_pc = "call"
    /\ d_changes' = diff(d_old, d_new)
    /\ d_pc' = "done"
    /\ UNCHANGED <<d_old, d_new>>
    /\ UNCHANGED outsideDiff

(***************************************************************************)
(* PreferenceMatcher (matcher/matcher.py)                                  *)
(***************************************************************************)

\* UserPreferences.max_price = None.
NoCeiling == 0

\* FUZZY_MATCH_THRESHOLD.
FUZZY_MATCH_THRESHOLD == 80

\* str.strip().lower() on the size labels the model uses, as pairs
\* <<label, cleaned label>>.
StripLower ==
    {<<"M", "m">>, <<"m", "m">>, <<" M ", "m">>,
     <<"Medium", "medium">>, <<"medium", "medium">>, <<" MEDIUM", "medium">>,
     <<"MED", "med">>, <<"med", "med">>,
     <<"L", "l">>, <<"l", "l">>, <<"Large ", "large">>, <<"large", "large">>,
     <<"S", "s">>, <<"s", "s">>,
     <<"XL", "xl">>, <<"xl", "xl">>,
     <<"Extra Large", "extra large">>, <<"extra large", "extra large">>,
     <<"X-Large", "x-large">>, <<"x-large", "x-large">>,
     <<"One Size", "one size">>, <<" one size ", "one size">>,
     <<"one size", "one size">>}

\* The size labels of the model.
RawSizes == {pr[1] : pr \in StripLower}

\* size.strip().lower()
strip_lower(size) == (CHOOSE pr \in StripLower : pr[1] = size)[2]

\* SIZE_ALIASES, in the order of the dict: <<short code, aliases>>.
SIZE_ALIASES ==
    << <<"xxs", {"xx-small", "extra extra small", "double extra small"}>>,
       <<"xs", {"x-small", "extra small"}>>,
       <<"s", {"small"}>>,
       <<"m", {"medium", "med"}>>,
       <<"l", {"large"}>>,
       <<"xl", {"x-large", "extra large"}>>,
       <<"xxl", {"xx-large", "extra extra large", "double extra large", "2xl"}>>,
       <<"3xl", {"xxx-large", "xxxl", "triple extra large"}>> >>

\* Mutant of _normalise_size: the label is looked up as it is written.
_normalise_size_raw(size) ==
    LET cleaned == size
        keys == {i \in 1..Len(SIZE_ALIASES) : SIZE_ALIASES[i][1] = cleaned}
        hits == {i \in 1..Len(SIZE_ALIASES) : cleaned \in SIZE_ALIASES[i][2]}
    IN IF keys # {} THEN cleaned
       ELSE IF hits # {}
       THEN SIZE_ALIASES[CHOOSE i \in hits : \A j \in hits : i <= j][1]
       ELSE cleaned

\* _normalise_size: the cleaned label when it is a short code, the first
\* short code that lists it as an alias, else the cleaned label.
_normalise_size(size) ==
    LET cleaned == strip_lower(size)
        keys == {i \in 1..Len(SIZE_ALIASES) : SIZE_ALIASES[i][1] = cleaned}
        hits == {i \in 1..Len(SIZE_ALIASES) : cleaned \in SIZE_ALIASES[i][2]}
    IN IF keys # {} THEN cleaned
       ELSE IF hits # {}
       THEN SIZE_ALIASES[CHOOSE i \in hits : \A j \in hits : i <= j][1]
       ELSE cleaned

\* _sizes_match(preferred_size, available_sizes)
_sizes_match(preferred_size, available_sizes) ==
    _normalise_size(preferred_size) \in {_normalise_size(s) : s \in available_sizes}

\* str.lower() on the product names and watchlist terms the model uses.
Lower ==
    {<<"Alpha Jacket", "alpha jacket">>, <<"beta pants", "beta pants">>,
     <<"ALPHA", "alpha">>, <<"jackett", "jackett">>}

lower(text) == (CHOOSE pr \in Lower : pr[1] = text)[2]

\* fuzz.token_set_ratio of the third-party library, taken as given: a table
\* of scores on the lower-cased names and terms of the model.
token_set_ratio(name, term) ==
    IF name = "alpha jacket" /\ term = "alpha" THEN 100
    ELSE IF name = "alpha jacket" /\ term = "jackett" THEN 80
    ELSE IF name = "beta pants" /\ term = "jackett" THEN 79
    ELSE 0

\* Python's None where a watchlist term is expected.
NoTerm == "<None>"

\* Mutant of _matches_watchlist: the score has to exceed the threshold.
_matches_watchlist_above(product_name, watchlist_terms) ==
    LET hits == {i \in 1..Len(watchlist_terms) :
                    token_set_ratio(lower(product_name), lower(watchlist_terms[i]))
                        > FUZZY_MATCH_THRESHOLD}
    IN IF hits = {} THEN NoTerm
       ELSE watchlist_terms[CHOOSE i \in hits : \A j \in hits : i <= j]

\* _matches_watchlist: the first term whose score reaches the threshold,
\* None when there is none.
_matches_watchlist(product_name, watchlist_terms) ==
    LET hits == {i \in 1..Len(watchlist_terms) :
                    token_set_ratio(lower(product_name), lower(watchlist_terms[i]))
                        >= FUZZY_MATCH_THRESHOLD}
    IN IF hits = {} THEN NoTerm
       ELSE watchlist_terms[CHOOSE i \in hits : \A j \in hits : i <= j]

\* Mutant of has_preferred_size: any entry of the size map counts, whatever
\* its category.
has_preferred_size_any_category(change, category, preferences) ==
    \E c \in DOMAIN preferences.size_map :
        _sizes_match(preferences.size_map[c], change.new_state.available_sizes)

\* preferences.size_map.get(category) is not None, and the preferred size
\* is among the new snapshot's sizes.
has_preferred_size(change, category, preferences) ==
    /\ category \in DOMAIN preferences.size_map
    /\ _sizes_match(preferences.size_map[category], change.new_state.available_sizes)

\* Mutant of _determine_rule: a restock is labelled by the sizes of the new
\* snapshot only when every restocked size is the preferred one.
_determine_rule_all_restocked(change, category, preferences) ==
    IF change.change_type = CT_RESTOCK
    THEN IF has_preferred_size(change, category, preferences)
         THEN LET old_sizes == IF change.previous_state # None
                               THEN change.previous_state.available_sizes ELSE {}
                  restocked_sizes == change.new_state.available_sizes \ old_sizes
              IN IF \A s \in restocked_sizes :
                        _normalise_size(s) = _normalise_size(preferences.size_map[category])
                 THEN "restock_exact_size" ELSE "restock"
         ELSE "restock"
    ELSE IF change.change_type = CT_PRICE_DROP
    THEN IF has_preferred_size(change, category, preferences)
         THEN "price_drop_in_size" ELSE "price_drop"
    ELSE IF change.change_type = CT_NEW
    THEN IF has_preferred_size(change, category, preferences)
         THEN "new_product_in_size" ELSE "new_product"
    ELSE "None"

\* _determine_rule(change, category, preferences).
_determine_rule(change, category, preferences) ==
    IF change.change_type = CT_RESTOCK
    THEN IF has_preferred_size(change, category, preferences)
         THEN LET old_sizes == IF change.previous_state # None
                               THEN change.previous_state.available_sizes ELSE {}
                  restocked_sizes == change.new_state.available_sizes \ old_sizes
              IN IF _sizes_match(preferences.size_map[category], restocked_sizes)
                 THEN "restock_exact_size" ELSE "restock"
         ELSE "restock"
    ELSE IF change.change_type = CT_PRICE_DROP
    THEN IF has_preferred_size(change, category, preferences)
         THEN "price_drop_in_size" ELSE "price_drop"
    ELSE IF change.change_type = CT_NEW
    THEN IF has_preferred_size(change, category, preferences)
         THEN "new_product_in_size" ELSE "new_product"
    ELSE "None"

\* AlertSchema(user_id, product_change, matched_rule).
AlertSchema(user_id, product_change, matched_rule) ==
    [user_id |-> user_id, product_change |-> product_change,
     matched_rule |-> matched_rule]

\* Mutant of above_max_price: a price equal to the ceiling is skipped too.
above_max_price_or_equal(change, preferences) ==
    preferences.max_price # NoCeiling /\ change.new_state.price >= preferences.max_price

\* The price gate of match: the change is skipped when a ceiling is set and
\* the new price is above it.
above_max_price(change, preferences) ==
    preferences.max_price # NoCeiling /\ change.new_state.price > preferences.max_price

\* The watchlist gate of match: the change is skipped when terms are
\* configured and none matches the product name.
no_watchlist_match(change, preferences) ==
    /\ preferences.watchlist_terms # <<>>
    /\ _matches_watchlist(change.new_state.name, preferences.watchlist_terms) = NoTerm

\* The body of match's loop for one change: the alerts it appends.
match_one(change, preferences, user_id) ==
    IF above_max_price(change, preferences) THEN <<>>
    ELSE IF no_watchlist_match(change, preferences) THEN <<>>
    ELSE LET matched_rule ==
                 _determine_rule(change, change.new_state.category, preferences)
         IN IF matched_rule # "None"
            THEN <<AlertSchema(user_id, change, matched_rule)>>
            ELSE <<>>

\* Mutant of match: the alerts come out in reverse order.
RECURSIVE match_reversed(_, _, _)
match_reversed(chs, preferences, user_id) ==
    IF chs = <<>> THEN <<>>
    ELSE match_reversed(Tail(chs), preferences, user_id)
         \o match_one(Head(chs), preferences, user_id)

\* match(changes, preferences, user_id): one alert per change that passes
\* the gates, in the order of `changes`.
RECURSIVE match(_, _, _)
match(chs, preferences, user_id) ==
    IF chs = <<>> THEN <<>>
    ELSE match_one(Head(chs), preferences, user_id)
         \o match(Tail(chs), preferences, user_id)

\* Bound on the changes given to the matcher.
MaxChanges == 2

\* The snapshots of the matcher's inputs: a jacket under one URL, named and
\* priced either way, with the given size labels.
MatchSnapshots(sizes) ==
    {[url |-> "u1", locale |-> EN_GB, name |-> n, price |-> pr,
      available_sizes |-> sizes, category |-> "Jackets"] :
        n \in {"Alpha Jacket", "beta pants"}, pr \in Prices}

\* The (previous sizes, new sizes) pairs of the RESTOCK changes, and the
\* size sets of the NEW and PRICE_DROP changes.
RestockSizes ==
    {<<{}, {"Medium"}>>, <<{}, {"Medium", "L"}>>, <<{"Medium"}, {"Medium", "L"}>>,
     <<{}, {"L"}>>, <<{"M"}, {"Medium"}>>}
ListedSizes == {{"Medium"}, {"L"}}

\* The changes given to the matcher: NEW at either price, PRICE_DROP from
\* price 2 to 1, RESTOCK at price 1.
MatchChanges ==
    {ProductChange(p, CT_NEW, None) :
        p \in UNION {MatchSnapshots(sizes) : sizes \in ListedSizes}}
    \cup {ProductChange(p, CT_PRICE_DROP, [p EXCEPT !.price = 2]) :
        p \in {q \in UNION {MatchSnapshots(sizes) : sizes \in ListedSizes} :
                  q.price = 1}}
    \cup UNION {{ProductChange(p, CT_RESTOCK, [p EXCEPT !.available_sizes = pair[1]]) :
                    p \in {q \in MatchSnapshots(pair[2]) : q.price = 1}} :
                pair \in RestockSizes}

\* The preferences given to the matcher: a ceiling or none, a watchlist or
\* none, a preferred size for jackets, for pants, or none.
MatchPreferences ==
    [max_price : {NoCeiling, 1},
     watchlist_terms : {<<>>, <<"ALPHA">>, <<"jackett">>, <<"jackett", "ALPHA">>},
     size_map : {<<>>, [c \in {"Jackets"} |-> " M "], [c \in {"Pants"} |-> "M"]}]

MatchInit ==
    /\ m_changes \in SeqUpTo(MatchChanges, MaxChanges)
    /\ m_preferences \in MatchPreferences
    /\ m_user_id \in {"a", "b"}
    /\ m_alerts = <<>>
    /\ m_pc = "call"

MatchIdle ==
    /\ m_changes = <<>>
    /\ m_preferences = [max_price |-> NoCeiling, watchlist_terms |-> <<>>,
                        size_map |-> <<>>]
    /\ m_user_id = "a"
    /\ m_alerts = <<>>
    /\ m_pc = "idle"

\* alerts = matcher.match(changes, preferences, user_id)
MatchCall ==
    /\ m_pc = "call"
    /\ m_alerts' = match(m_changes, m_preferences, m_user_id)
    /\ m_pc' = "done"
    /\ UNCHANGED <<m_changes, m_preferences, m_user_id>>
    /\ UNCHANGED outsideMatch

SizeInit ==
    /\ z_sizes \in RawSizes \X RawSizes
    /\ z_normalised = <<>>
    /\ z_again = <<>>
    /\ z_pc = "call"

SizeIdle ==
    /\ z_sizes = <<>>
    /\ z_normalised = <<>>
    /\ z_again = <<>>
    /\ z_pc = "idle"

\* _normalise_size applied to both labels.
NormaliseCall ==
    /\ z_pc = "call"
    /\ z_normalised' = <<_normalise_size(z_sizes[1]), _normalise_size(z_sizes[2])>>
    /\ z_pc' = "once"
    /\ UNCHANGED <<z_sizes, z_again>>
    /\ UNCHANGED outsideSize

\* _normalise_size applied to its own results.
NormaliseAgain ==
    /\ z_pc = "once"
    /\ z_normalised[1] \in RawSizes
    /\ z_normalised[2] \in RawSizes
    /\ z_again' = <<_normalise_size(z_normalised[1]), _normalise_size(z_normalised[2])>>
    /\ z_pc' = "twice"
    /\ UNCHANGED <<z_sizes, z_normalised>>
    /\ UNCHANGED outsideSize

SizeNext ==
    \/ NormaliseCall
    \/ NormaliseAgain

(***************************************************************************)
(* ProductRepository (products/repository.py)                              *)
(***************************************************************************)

\* The table product_snapshots is a set of rows; a row carries the fields
\* of the snapshot it was written from (ProductSnapshotRow.to_schema gives
\* them back unchanged).

\* All orderings of a finite set as sequences.
Orderings(S) ==
    {seq \in [1..Cardinality(S) -> S] : \A i, j \in 1..Cardinality(S) : i # j => seq[i] # seq[j]}

\* get_latest_by_locale: the rows of the locale, ordered by scraped_at
\* (newest first).  The model keeps no timestamps: every order is possible.
get_latest_by_locale(rows, locale) ==
    Orderings({row \in rows : row.locale = locale})

\* The select of bulk_upsert: the rows with the snapshot's url and locale.
existing(rows, snapshot) ==
    {row \in rows : row.url = snapshot.url /\ row.locale = snapshot.locale}

\* One iteration of bulk_upsert: the existing row takes the snapshot's
\* fields, or a new row is added.
upsert_one(rows, snapshot) ==
    (rows \ existing(rows, snapshot)) \cup {snapshot}

\* bulk_upsert(snapshots): the iterations in the order of the list; the
\* session autoflushes, so an iteration sees the rows of the earlier ones.
RECURSIVE bulk_upsert(_, _)
bulk_upsert(rows, snapshots) ==
    IF snapshots = <<>> THEN rows
    ELSE bulk_upsert(upsert_one(rows, Head(snapshots)), Tail(snapshots))

(***************************************************************************)
(* AlertScheduler (scheduler/scheduler.py)                                 *)
(*                                                                         *)
(* pc: "idle"        no cycle is running                                   *)
(*     "scrape"      _process_locale entered, before scraper.scrape        *)
(*     "get_latest"  before product_repo.get_latest_by_locale              *)
(*     "diff"        before self._differ.diff                              *)
(*     "upsert"      before product_repo.bulk_upsert                       *)
(*     "commit"      before session.commit                                 *)
(*     "users"       before user_repo.get_all_with_devices                 *)
(*     "user"        at the head of the loop over users                    *)
(*     "notify"      at the head of the loop over the user's alerts        *)
(*     "returned"    _process_locale returned to _run_cycle                *)
(*     "raised"      _process_locale raised into _run_cycle's try          *)
(***************************************************************************)

\* self._scrapers, in the order the dict is iterated.
SchedulerLocales == <<EN_GB, NB_NO>>

\* The products an outlet page can list in the scheduler model: u1 in S at
\* price 1 or 2, u2 at price 2 in S or in S and M.  The scraper stamps its
\* own locale on every product it parses (scraper.py, _parse_single_card).
Catalog(locale) ==
    {p \in ProductSnapshot :
        /\ p.locale = locale
        /\ p.name = "n1"
        /\ \/ p.url = "u1" /\ p.available_sizes = {"S"}
           \/ p.url = "u2" /\ p.price = 2 /\ p.available_sizes \in {{"S"}, {"S", "M"}}}

\* Bound on the number of products one scrape returns.
MaxScrape == 2

\* Subscribers: a User row with its stored preferences; prefs_valid says
\* whether UserPreferences.model_validate accepts the stored JSON.
UserA ==
    [id |-> "a", region |-> EN_GB, max_price |-> NoCeiling, prefs_valid |-> TRUE,
     watchlist_terms |-> <<>>, size_map |-> <<>>]
UserB ==
    [id |-> "b", region |-> NB_NO, max_price |-> 1, prefs_valid |-> TRUE,
     watchlist_terms |-> <<>>, size_map |-> <<>>]
UserC ==
    [id |-> "c", region |-> EN_GB, max_price |-> NoCeiling, prefs_valid |-> FALSE,
     watchlist_terms |-> <<>>, size_map |-> <<>>]

\* What get_all_with_devices can return: the directory is edited outside
\* the pipeline, each read sees one of these lists.
Directories ==
    {<<>>, <<UserA>>, <<UserA, UserB>>, <<UserB, UserA>>, <<UserA, UserC>>, <<UserC, UserB>>}

\* The stage recorded in `stages`, once per run of consecutive steps.
Stage(name) == IF stages # <<>> /\ stages[Len(stages)] = name
               THEN stages ELSE Append(stages, name)

SchedInit ==
    /\ store = {}
    /\ session = {}
    /\ pc = "idle"
    /\ li = 0
    /\ new_products = <<>>
    /\ old_products = <<>>
    /\ changes = <<>>
    /\ users = <<>>
    /\ ui = 0
    /\ alerts = <<>>
    /\ ai = 0
    /\ entered = {}
    /\ failed = {}
    /\ stages = <<>>
    /\ committed = FALSE
    /\ escaped = FALSE
    /\ lost = {}
    /\ matched = {}
    /\ dispatched = <<>>

\* The locals of _process_locale as they are when it is entered.
EnterLocale(i) ==
    /\ pc' = "scrape"
    /\ li' = i
    /\ new_products' = <<>>
    /\ old_products' = <<>>
    /\ changes' = <<>>
    /\ users' = <<>>
    /\ ui' = 0
    /\ alerts' = <<>>
    /\ ai' = 0
    /\ stages' = <<>>
    /\ committed' = FALSE
    /\ session' = {}
    /\ matched' = {}
    /\ dispatched' = <<>>

\* _run_cycle starts (the interval job fires, or trigger_now is awaited)
\* and calls _process_locale for the first locale.
RunCycle ==
    /\ pc = "idle"
    /\ EnterLocale(1)
    /\ entered' = {SchedulerLocales[1]}
    /\ failed' = {}
    /\ escaped' = FALSE
    /\ UNCHANGED <<store, lost>>
    /\ UNCHANGED outsideSched

\* Mutant of Scrape: an empty list goes on to the diff like any other.
Scrape_empty_goes_on ==
    /\ pc = "scrape"
    /\ \E products \in SeqUpTo(Catalog(SchedulerLocales[li]), MaxScrape) :
         /\ new_products' = products
         /\ pc' = "get_latest"
    /\ stages' = Stage("fetch")
    /\ UNCHANGED <<store, session, li, old_products, changes, users, ui, alerts,
                   ai, entered, failed, committed, escaped, lost, matched, dispatched>>
    /\ UNCHANGED outsideSched

\* scraper.scrape returned a list: empty, _process_locale returns.
Scrape ==
    /\ pc = "scrape"
    /\ \E products \in SeqUpTo(Catalog(SchedulerLocales[li]), MaxScrape) :
         /\ new_products' = products
         /\ pc' = IF products = <<>> THEN "returned" ELSE "get_latest"
    /\ stages' = Stage("fetch")
    /\ UNCHANGED <<store, session, li, old_products, changes, users, ui, alerts,
                   ai, entered, failed, committed, escaped, lost, matched, dispatched>>
    /\ UNCHANGED outsideSched

\* scraper.scrape raised (page fetch out of retries, rendering failure).
ScrapeRaises ==
    /\ pc = "scrape"
    /\ pc' = "raised"
    /\ stages' = Stage("fetch")
    /\ UNCHANGED <<store, session, li, new_products, old_products, changes, users,
                   ui, alerts, ai, entered, failed, committed, escaped, lost, matched, dispatched>>
    /\ UNCHANGED outsideSched

\* old_rows = get_latest_by_locale(locale); old_products = to_schema of each.
GetLatest ==
    /\ pc = "get_latest"
    /\ old_products' \in get_latest_by_locale(store, SchedulerLocales[li])
    /\ pc' = "diff"
    /\ stages' = Stage("diff")
    /\ UNCHANGED <<store, session, li, new_products, changes, users, ui, alerts,
                   ai, entered, failed, committed, escaped, lost, matched, dispatched>>
    /\ UNCHANGED outsideSched

\* Mutant of Diff: the matching stage follows the diff directly, the
\* snapshot is not persisted first.
Diff_then_match ==
    /\ pc = "diff"
    /\ changes' = diff(old_products, new_products)
    /\ pc' = IF changes' = <<>> THEN "upsert" ELSE "users"
    /\ stages' = Stage("diff")
    /\ UNCHANGED <<store, session, li, new_products, old_products, users, ui,
                   alerts, ai, entered, failed, committed, escaped, lost, matched, dispatched>>
    /\ UNCHANGED outsideSched

\* changes = self._differ.diff(old_products, new_products).
Diff ==
    /\ pc = "diff"
    /\ changes' = diff(old_products, new_products)
    /\ pc' = "upsert"
    /\ stages' = Stage("diff")
    /\ UNCHANGED <<store, session, li, new_products, old_products, users, ui,
                   alerts, ai, entered, failed, committed, escaped, lost, matched, dispatched>>
    /\ UNCHANGED outsideSched

\* product_repo.bulk_upsert(new_products): flushed in the open transaction.
BulkUpsert ==
    /\ pc = "upsert"
    /\ session' = bulk_upsert(store, new_products)
    /\ pc' = "commit"
    /\ stages' = Stage("persist")
    /\ UNCHANGED <<store, li, new_products, old_products, changes, users, ui,
                   alerts, ai, entered, failed, committed, escaped, lost, matched, dispatched>>
    /\ UNCHANGED outsideSched

\* session.commit(); with no change _process_locale returns.
Commit ==
    /\ pc = "commit"
    /\ store' = session
    /\ committed' = TRUE
    /\ pc' = IF changes = <<>> THEN "returned" ELSE "users"
    /\ stages' = Stage("persist")
    /\ UNCHANGED <<session, li, new_products, old_products, changes, users, ui,
                   alerts, ai, entered, failed, escaped, lost, matched, dispatched>>
    /\ UNCHANGED outsideSched

\* A database call raises (get_latest_by_locale, bulk_upsert, commit or
\* get_all_with_devices): the session block is left, nothing is committed
\* by it, the exception leaves _process_locale.
StoreError ==
    /\ pc \in {"get_latest", "upsert", "commit", "users"}
    /\ pc' = "raised"
    /\ session' = {}
    /\ UNCHANGED <<store, li, new_products, old_products, changes, users, ui,
                   alerts, ai, entered, failed, stages, committed, escaped, lost, matched, dispatched>>
    /\ UNCHANGED outsideSched

\* users = user_repo.get_all_with_devices().
GetUsers ==
    /\ pc = "users"
    /\ users' \in Directories
    /\ ui' = 1
    /\ pc' = "user"
    /\ stages' = Stage("match")
    /\ UNCHANGED <<store, session, li, new_products, old_products, changes,
                   alerts, ai, entered, failed, committed, escaped, lost, matched, dispatched>>
    /\ UNCHANGED outsideSched

\* The loop over users is exhausted: _process_locale returns.
UsersDone ==
    /\ pc = "user"
    /\ ui > Len(users)
    /\ pc' = "returned"
    /\ UNCHANGED <<store, session, li, new_products, old_products, changes, users,
                   ui, alerts, ai, entered, failed, stages, committed, escaped, lost, matched, dispatched>>
    /\ UNCHANGED outsideSched

\* user.get_preferences() raises on stored preferences that do not
\* validate: nothing in the loop catches it.
PreferencesRaise ==
    /\ pc = "user"
    /\ ui <= Len(users)
    /\ ~users[ui].prefs_valid
    /\ pc' = "raised"
    /\ stages' = Stage("match")
    /\ UNCHANGED <<store, session, li, new_products, old_products, changes, users,
                   ui, alerts, ai, entered, failed, committed, escaped, lost, matched, dispatched>>
    /\ UNCHANGED outsideSched

\* A user of another region is skipped before the matcher is called.
SkipRegion ==
    /\ pc = "user"
    /\ ui <= Len(users)
    /\ users[ui].prefs_valid
    /\ users[ui].region # SchedulerLocales[li]
    /\ ui' = ui + 1
    /\ UNCHANGED <<store, session, pc, li, new_products, old_products, changes,
                   users, alerts, ai, entered, failed, stages, committed, escaped, lost, matched, dispatched>>
    /\ UNCHANGED outsideSched

\* Mutant of Match: the matcher is called whatever the user's region.
Match_any_region ==
    /\ pc = "user"
    /\ ui <= Len(users)
    /\ users[ui].prefs_valid
    /\ LET found == match(changes, users[ui], users[ui].id)
       IN IF found = <<>>
          THEN /\ ui' = ui + 1
               /\ UNCHANGED <<pc, alerts, ai>>
          ELSE /\ alerts' = found
               /\ ai' = 1
               /\ pc' = "notify"
               /\ UNCHANGED ui
    /\ matched' = matched \cup {users[ui]}
    /\ stages' = Stage("match")
    /\ UNCHANGED <<store, session, li, new_products, old_products, changes, users,
                   entered, failed, committed, escaped, lost, dispatched>>
    /\ UNCHANGED outsideSched

\* alerts = self._matcher.match(changes, preferences, user.id); with no
\* alert the loop goes to the next user.
Match ==
    /\ pc = "user"
    /\ ui <= Len(users)
    /\ users[ui].prefs_valid
    /\ users[ui].region = SchedulerLocales[li]
    /\ LET found == match(changes, users[ui], users[ui].id)
       IN IF found = <<>>
          THEN /\ ui' = ui + 1
               /\ UNCHANGED <<pc, alerts, ai>>
          ELSE /\ alerts' = found
               /\ ai' = 1
               /\ pc' = "notify"
               /\ UNCHANGED ui
    /\ matched' = matched \cup {users[ui]}
    /\ stages' = Stage("match")
    /\ UNCHANGED <<store, session, li, new_products, old_products, changes, users,
                   entered, failed, committed, escaped, lost, dispatched>>
    /\ UNCHANGED outsideSched

\* await self._notifier.notify(alert, user) inside its own try/except: the
\* loop goes on whether notify returned or raised.
Notify ==
    /\ pc = "notify"
    /\ IF ai < Len(alerts)
       THEN /\ ai' = ai + 1
            /\ UNCHANGED <<pc, ui, alerts>>
       ELSE /\ ai' = 0
            /\ alerts' = <<>>
            /\ ui' = ui + 1
            /\ pc' = "user"
    /\ dispatched' = Append(dispatched, [user |-> users[ui], alert |-> alerts[ai]])
    /\ stages' = Stage("dispatch")
    /\ UNCHANGED <<store, session, li, new_products, old_products, changes, users,
                   entered, failed, committed, escaped, lost, matched>>
    /\ UNCHANGED outsideSched

\* The for loop of _run_cycle after _process_locale ended: the next locale
\* is processed, or the cycle is complete.
Continue(i) ==
    IF i < Len(SchedulerLocales)
    THEN /\ EnterLocale(i + 1)
         /\ entered' = entered \cup {SchedulerLocales[i + 1]}
         /\ UNCHANGED <<store, escaped>>
    ELSE /\ pc' = "idle"
         /\ UNCHANGED <<store, session, li, new_products, old_products, changes,
                        users, ui, alerts, ai, entered, stages, committed, escaped,
                        matched, dispatched>>

\* _process_locale returned normally.
LocaleReturned ==
    /\ pc = "returned"
    /\ Continue(li)
    /\ lost' = IF committed THEN lost \ {SchedulerLocales[li]} ELSE lost
    /\ UNCHANGED failed
    /\ UNCHANGED outsideSched

\* Mutant of LocaleError: no except clause, the exception leaves _run_cycle
\* and the remaining locales are not processed.
LocaleError_propagates ==
    /\ pc = "raised"
    /\ failed' = failed \cup {SchedulerLocales[li]}
    /\ pc' = "idle"
    /\ escaped' = TRUE
    /\ lost' = IF committed THEN lost \cup {SchedulerLocales[li]} ELSE lost
    /\ UNCHANGED <<store, session, li, new_products, old_products, changes,
                   users, ui, alerts, ai, entered, stages, committed, matched,
                   dispatched>>
    /\ UNCHANGED outsideSched

\* except Exception in _run_cycle: the error is logged and the loop goes on.
LocaleError ==
    /\ pc = "raised"
    /\ failed' = failed \cup {SchedulerLocales[li]}
    /\ Continue(li)
    /\ lost' = IF committed THEN lost \cup {SchedulerLocales[li]} ELSE lost
    /\ UNCHANGED outsideSched

SchedIdle ==
    /\ SchedInit

SchedNext ==
    \/ RunCycle
    \/ Scrape
    \/ ScrapeRaises
    \/ GetLatest
    \/ Diff
    \/ BulkUpsert
    \/ Commit
    \/ StoreError
    \/ GetUsers
    \/ UsersDone
    \/ PreferencesRaise
    \/ SkipRegion
    \/ Match
    \/ Notify
    \/ LocaleReturned
    \/ LocaleError

(***************************************************************************)
(* Channel notifiers and NotifierRegistry (notifier/)                      *)
(*                                                                         *)
(* One call is followed: either NotifierRegistry.notify(alert, user), which *)
(* creates one asyncio task per channel and awaits them in turn, or the    *)
(* send of one notifier called on its own.  The tasks run interleaved,     *)
(* each one step per provider call.  The providers (Resend, pywebpush,     *)
(* APNs) answer any way they like.                                         *)
(***************************************************************************)

\* Platform enum.
WEB == "web"
IOS == "ios"
Platforms == {WEB, IOS}

\* DeviceRegistration: the platform, and whether device_token is a JSON
\* document (the registration endpoint stores any string).
DeviceRegistration == [platform : Platforms, token_json : BOOLEAN]

\* Bound on the devices of the user.
MaxDevices == 2

\* User: the devices and whether the stored preferences validate
\* (get_preferences raises when they do not).
NotifyUsers ==
    [devices : SeqUpTo(DeviceRegistration, MaxDevices), prefs_valid : BOOLEAN]

\* The channel names of the registry's dicts.
Channels == {"email", "web_push", "apns"}

\* _MAX_RETRIES of each notifier module.
EMAIL_MAX_RETRIES == 3
WEB_PUSH_MAX_RETRIES == 3
APNS_MAX_RETRIES == 3

\* _BASE_DELAY of each notifier module, in seconds.
EMAIL_BASE_DELAY == 1
WEB_PUSH_BASE_DELAY == 1
APNS_BASE_DELAY == 1

\* Mutant of retry_delay: the same delay after every failed pass.
retry_delay_constant(base_delay, attempt) == base_delay

\* The delay slept after the failed pass `attempt` (counted from 0):
\* _BASE_DELAY * (2**attempt).
retry_delay(base_delay, attempt) == base_delay * (2 ^ attempt)

\* [d for d in user.devices if d.platform == platform], as indices into
\* user.devices.
platform_devices(user, platform) ==
    SelectSeq([i \in 1..Len(user.devices) |-> i],
              LAMBDA i : user.devices[i].platform = platform)

\* any(d.platform == platform for d in user.devices)
has_platform(user, platform) ==
    \E i \in 1..Len(user.devices) : user.devices[i].platform = platform

\* A send coroutine: st is "none" (never created), "ready" (created, not
\* started), "run", or how it ended: "true", "false" (returned) or "raised";
\* dev is the position in the platform's device list, phase "enter" at the
\* call of _send_to_device and "try" inside its retry loop, attempt the
\* loop variable.
NoTask ==
    [st |-> "none", dev |-> 0, phase |-> "enter", attempt |-> 0,
     all_succeeded |-> TRUE]

\* A device of the user: the channels that attempted it, the provider calls
\* made for it, the delays slept between them, and what _send_to_device
\* answered.
NoDevice == [by |-> {}, calls |-> 0, sleeps |-> <<>>, result |-> "none"]

NotifyInit ==
    /\ n_user \in NotifyUsers
    /\ n_entry \in {"notify"} \cup Channels
    /\ n_pc = "call"
    /\ n_tasks = <<>>
    /\ n_wait = 0
    /\ n_results = [c \in {} |-> FALSE]
    /\ n_task = [c \in Channels |-> NoTask]
    /\ n_sends = [c \in Channels |-> 0]
    /\ n_dev = [i \in 1..Len(n_user.devices) |-> NoDevice]
    /\ n_mail_calls = 0
    /\ n_mail_sleeps = <<>>

NotifyIdle ==
    /\ n_user = [devices |-> <<>>, prefs_valid |-> TRUE]
    /\ n_entry = "none"
    /\ n_pc = "idle"
    /\ n_tasks = <<>>
    /\ n_wait = 0
    /\ n_results = [c \in {} |-> FALSE]
    /\ n_task = [c \in Channels |-> NoTask]
    /\ n_sends = [c \in Channels |-> 0]
    /\ n_dev = [i \in {} |-> NoDevice]
    /\ n_mail_calls = 0
    /\ n_mail_sleeps = <<>>

\* Mutant of create_tasks: the browser-push task is created for a user with
\* any device at all.
create_tasks_any_device(user) ==
    <<"email">>
    \o (IF user.devices # <<>> THEN <<"web_push">> ELSE <<>>)
    \o (IF has_platform(user, IOS) THEN <<"apns">> ELSE <<>>)

\* notify, the `tasks` dict: email always, web_push with a web device, apns
\* with an ios device.
create_tasks(user) ==
    <<"email">>
    \o (IF has_platform(user, WEB) THEN <<"web_push">> ELSE <<>>)
    \o (IF has_platform(user, IOS) THEN <<"apns">> ELSE <<>>)

\* notify up to its first await: asyncio.create_task for each channel.
NotifyCreateTasks ==
    /\ n_pc = "call"
    /\ n_entry = "notify"
    /\ n_tasks' = create_tasks(n_user)
    /\ n_task' = [c \in Channels |->
                    IF c \in Range(create_tasks(n_user))
                    THEN [NoTask EXCEPT !.st = "ready"] ELSE n_task[c]]
    /\ n_sends' = [c \in Channels |->
                    IF c \in Range(create_tasks(n_user))
                    THEN n_sends[c] + 1 ELSE n_sends[c]]
    /\ n_wait' = 1
    /\ n_pc' = "await"
    /\ UNCHANGED <<n_user, n_entry, n_results, n_dev, n_mail_calls,
                   n_mail_sleeps>>
    /\ UNCHANGED outsideNotify

\* One notifier's send awaited by a caller other than the registry.
SendCall ==
    /\ n_pc = "call"
    /\ n_entry \in Channels
    /\ n_task' = [n_task EXCEPT ![n_entry] = [NoTask EXCEPT !.st = "ready"]]
    /\ n_sends' = [n_sends EXCEPT ![n_entry] = @ + 1]
    /\ n_pc' = "direct"
    /\ UNCHANGED <<n_user, n_entry, n_tasks, n_wait, n_results, n_dev, n_mail_calls,
                   n_mail_sleeps>>
    /\ UNCHANGED outsideNotify

\* Mutant of Running: a send runs only while notify awaits its task.
Running_in_turn(channel) ==
    /\ n_task[channel].st \in {"ready", "run"}
    /\ \/ n_pc = "direct"
       \/ n_pc = "await" /\ n_tasks[n_wait] = channel

\* The event loop runs the coroutines once the caller awaits: every task
\* created and not ended can take its next step.
Running(channel) ==
    /\ n_pc \in {"await", "direct"}
    /\ n_task[channel].st \in {"ready", "run"}

\* EmailNotifier.send before its retry loop: get_preferences and the
\* rendering are outside the try.
EmailSendStart ==
    /\ Running("email")
    /\ n_task["email"].st = "ready"
    /\ n_task' = [n_task EXCEPT !["email"].st =
                    IF n_user.prefs_valid THEN "run" ELSE "raised"]
    /\ UNCHANGED <<n_user, n_entry, n_pc, n_tasks, n_wait, n_results,
                   n_sends, n_dev, n_mail_calls,
                   n_mail_sleeps>>
    /\ UNCHANGED outsideNotify

\* One pass of EmailNotifier.send's retry loop: resend.Emails.send returns
\* or raises; a failed pass other than the last sleeps its delay.
EmailSendAttempt ==
    /\ Running("email")
    /\ n_task["email"].st = "run"
    /\ n_mail_calls' = n_mail_calls + 1
    /\ \E delivered \in BOOLEAN :
          LET t == n_task["email"] IN
          /\ n_task' = [n_task EXCEPT !["email"] =
                IF delivered THEN [t EXCEPT !.st = "true"]
                ELSE IF t.attempt < EMAIL_MAX_RETRIES - 1
                THEN [t EXCEPT !.attempt = t.attempt + 1]
                ELSE [t EXCEPT !.st = "false", !.attempt = t.attempt + 1]]
          /\ n_mail_sleeps' =
                IF ~delivered /\ t.attempt < EMAIL_MAX_RETRIES - 1
                THEN Append(n_mail_sleeps, retry_delay(EMAIL_BASE_DELAY, t.attempt))
                ELSE n_mail_sleeps
    /\ UNCHANGED <<n_user, n_entry, n_pc, n_tasks, n_wait, n_results, n_sends, n_dev>>
    /\ UNCHANGED outsideNotify

\* The per-device loop of send after _send_to_device returned `success`:
\* the next device, or the return of all_succeeded after the last one.
after_device(t, devices, success) ==
    LET all == t.all_succeeded /\ success IN
    IF t.dev < Len(devices)
    THEN [t EXCEPT !.dev = t.dev + 1, !.phase = "enter", !.attempt = 0,
                   !.all_succeeded = all]
    ELSE [t EXCEPT !.st = IF all THEN "true" ELSE "false", !.all_succeeded = all]

\* send of the two push notifiers up to the device loop: True at once when
\* the user has no device of the platform.
send_start(t, devices) ==
    IF devices = <<>>
    THEN [t EXCEPT !.st = "true"]
    ELSE [t EXCEPT !.st = "run", !.dev = 1, !.phase = "enter", !.attempt = 0,
                   !.all_succeeded = TRUE]

WebPushSendStart ==
    /\ Running("web_push")
    /\ n_task["web_push"].st = "ready"
    /\ n_task' = [n_task EXCEPT !["web_push"] =
                    send_start(n_task["web_push"], platform_devices(n_user, WEB))]
    /\ UNCHANGED <<n_user, n_entry, n_pc, n_tasks, n_wait, n_results,
                   n_sends, n_dev, n_mail_calls,
                   n_mail_sleeps>>
    /\ UNCHANGED outsideNotify

\* WebPushNotifier._send_to_device before its retry loop:
\* json.loads(device.device_token) is outside the try, so a token that is
\* not JSON raises out of _send_to_device and out of send.
WebPushSendToDevice ==
    /\ Running("web_push")
    /\ n_task["web_push"].st = "run"
    /\ n_task["web_push"].phase = "enter"
    /\ LET t == n_task["web_push"]
           i == platform_devices(n_user, WEB)[t.dev]
           decoded == n_user.devices[i].token_json
       IN  /\ n_dev' = [n_dev EXCEPT ![i] =
                          [by |-> n_dev[i].by \cup {"web_push"},
                           calls |-> n_dev[i].calls,
                           sleeps |-> n_dev[i].sleeps,
                           result |-> IF decoded THEN n_dev[i].result ELSE "raised"]]
           /\ n_task' = [n_task EXCEPT !["web_push"] =
                          IF decoded THEN [t EXCEPT !.phase = "try", !.attempt = 0]
                          ELSE [t EXCEPT !.st = "raised"]]
    /\ UNCHANGED <<n_user, n_entry, n_pc, n_tasks, n_wait, n_results,
                   n_sends, n_mail_calls,
                   n_mail_sleeps>>
    /\ UNCHANGED outsideNotify

\* One pass of a push notifier's retry loop for device i: the provider is
\* called; a delivery ends the loop with True, the last failed pass with
\* False, any other failed pass sleeps its delay.
push_attempt(channel, platform, max_retries, base_delay, delivered) ==
    LET t == n_task[channel]
        devices == platform_devices(n_user, platform)
        i == devices[t.dev]
        exhausted == ~delivered /\ ~(t.attempt + 1 < max_retries)
    IN  /\ n_dev' = [n_dev EXCEPT ![i] =
                       [by |-> n_dev[i].by,
                        calls |-> n_dev[i].calls + 1,
                        sleeps |-> IF delivered \/ exhausted THEN n_dev[i].sleeps
                                   ELSE Append(n_dev[i].sleeps,
                                               retry_delay(base_delay, t.attempt)),
                        result |-> IF delivered THEN "true"
                                   ELSE IF exhausted THEN "false"
                                   ELSE n_dev[i].result]]
        /\ n_task' = [n_task EXCEPT ![channel] =
                       IF delivered THEN after_device(t, devices, TRUE)
                       ELSE IF exhausted THEN after_device(t, devices, FALSE)
                       ELSE [t EXCEPT !.attempt = t.attempt + 1]]

\* One pass of WebPushNotifier._send_to_device's retry loop: webpush
\* returns or raises.
WebPushAttempt ==
    /\ Running("web_push")
    /\ n_task["web_push"].st = "run"
    /\ n_task["web_push"].phase = "try"
    /\ \E delivered \in BOOLEAN :
          push_attempt("web_push", WEB, WEB_PUSH_MAX_RETRIES, WEB_PUSH_BASE_DELAY, delivered)
    /\ UNCHANGED <<n_user, n_entry, n_pc, n_tasks, n_wait, n_results,
                   n_sends, n_mail_calls,
                   n_mail_sleeps>>
    /\ UNCHANGED outsideNotify

ApnsSendStart ==
    /\ Running("apns")
    /\ n_task["apns"].st = "ready"
    /\ n_task' = [n_task EXCEPT !["apns"] =
                    send_start(n_task["apns"], platform_devices(n_user, IOS))]
    /\ UNCHANGED <<n_user, n_entry, n_pc, n_tasks, n_wait, n_results,
                   n_sends, n_dev, n_mail_calls,
                   n_mail_sleeps>>
    /\ UNCHANGED outsideNotify

\* ApnsPushNotifier._send_to_device before its retry loop:
\* build_apns_notification only fills a request object.
ApnsSendToDevice ==
    /\ Running("apns")
    /\ n_task["apns"].st = "run"
    /\ n_task["apns"].phase = "enter"
    /\ LET t == n_task["apns"]
           i == platform_devices(n_user, IOS)[t.dev]
       IN  /\ n_dev' = [n_dev EXCEPT ![i] =
                          [by |-> n_dev[i].by \cup {"apns"},
                           calls |-> n_dev[i].calls,
                           sleeps |-> n_dev[i].sleeps,
                           result |-> n_dev[i].result]]
           /\ n_task' = [n_task EXCEPT !["apns"] =
                          [t EXCEPT !.phase = "try", !.attempt = 0]]
    /\ UNCHANGED <<n_user, n_entry, n_pc, n_tasks, n_wait, n_results,
                   n_sends, n_mail_calls,
                   n_mail_sleeps>>
    /\ UNCHANGED outsideNotify

\* One pass of ApnsPushNotifier._send_to_device's retry loop: APNs accepts
\* the notification, rejects it, or the client raises; the last two both
\* go on to the next pass.
ApnsAttempt ==
    /\ Running("apns")
    /\ n_task["apns"].st = "run"
    /\ n_task["apns"].phase = "try"
    /\ \E outcome \in {"successful", "rejected", "raised"} :
          push_attempt("apns", IOS, APNS_MAX_RETRIES, APNS_BASE_DELAY,
                       outcome = "successful")
    /\ UNCHANGED <<n_user, n_entry, n_pc, n_tasks, n_wait, n_results,
                   n_sends, n_mail_calls,
                   n_mail_sleeps>>
    /\ UNCHANGED outsideNotify

\* Mutant of NotifyAwait: no except clause around `await task`.
NotifyAwait_propagates ==
    /\ n_pc = "await"
    /\ n_task[n_tasks[n_wait]].st \in {"true", "false", "raised"}
    /\ LET channel == n_tasks[n_wait]
           raised == n_task[channel].st = "raised"
       IN  /\ n_results' = IF raised THEN n_results
                           ELSE n_results @@ (channel :> (n_task[channel].st = "true"))
           /\ n_wait' = IF ~raised /\ n_wait < Len(n_tasks) THEN n_wait + 1 ELSE n_wait
           /\ n_pc' = IF raised THEN "raised"
                      ELSE IF n_wait < Len(n_tasks) THEN "await" ELSE "done"
    /\ UNCHANGED <<n_user, n_entry, n_tasks, n_task, n_sends, n_dev, n_mail_calls,
                   n_mail_sleeps>>
    /\ UNCHANGED outsideNotify

\* notify, one pass of `for channel, task in tasks.items()`: the task's
\* return value is recorded, False when awaiting it raised; after the last
\* task the results are returned.
NotifyAwait ==
    /\ n_pc = "await"
    /\ n_task[n_tasks[n_wait]].st \in {"true", "false", "raised"}
    /\ LET channel == n_tasks[n_wait]
       IN  n_results' = n_results @@ (channel :> (n_task[channel].st = "true"))
    /\ n_wait' = IF n_wait < Len(n_tasks) THEN n_wait + 1 ELSE n_wait
    /\ n_pc' = IF n_wait < Len(n_tasks) THEN "await" ELSE "done"
    /\ UNCHANGED <<n_user, n_entry, n_tasks, n_task, n_sends, n_dev, n_mail_calls,
                   n_mail_sleeps>>
    /\ UNCHANGED outsideNotify

NotifyNext ==
    \/ NotifyCreateTasks
    \/ SendCall
    \/ EmailSendStart
    \/ EmailSendAttempt
    \/ WebPushSendStart
    \/ WebPushSendToDevice
    \/ WebPushAttempt
    \/ ApnsSendStart
    \/ ApnsSendToDevice
    \/ ApnsAttempt
    \/ NotifyAwait

(***************************************************************************)
(* BaseScraper (scraper/scraper.py)                                        *)
(*                                                                         *)
(* One scraper instance, called again and again while time passes.  The    *)
(* clock counts seconds; the site answers any way it likes and takes its   *)
(* time to answer.  Inside a call time passes only through the answers and *)
(* the sleeps of the code.                                                 *)
(***************************************************************************)

\* _MAX_RETRIES of the scraper module.
SCRAPER_MAX_RETRIES == 3

\* _BACKOFF_BASE_SECONDS of the scraper module.
BACKOFF_BASE_SECONDS == 2

\* settings.scrape_interval_minutes (its default).
SCRAPE_INTERVAL_MINUTES == 60

\* settings.scrape_min_delay_seconds (its default).
SCRAPE_MIN_DELAY_SECONDS == 30

\* Bounds: the clock, the number of scrape calls, the cards of a page.
MaxClock == 4000
MaxCalls == 2
MaxCards == 1

\* The time that passes between two calls, besides none at all.
TickSeconds == {1800, 3600}

\* The time a request takes until its answer or its failure.
ResponseSeconds == {0, 20}

\* A product card of a page: the element the link selector finds ("none",
\* one without href, or one with), the text of the name element, the text
\* of the link, whether reading the rest of the card raises (an href that
\* urljoin rejects), and the href, which tells the cards of a page apart.
Card(href, link, name, link_text, faulty) ==
    [href |-> href, link |-> link, name |-> name, link_text |-> link_text,
     faulty |-> faulty]

\* A card that is read, and one without a link.
GoodCard == Card("u1", "href", "n1", "", FALSE)
BrokenCard == Card("u1", "none", "", "", FALSE)

\* A page: its product cards in document order, each one well formed or not.
Pages == SeqUpTo({GoodCard, BrokenCard}, MaxCards)

\* What _parse_single_card yields: None, an exception, or a snapshot (its
\* url and name).
NoSnapshot == [outcome |-> "None", url |-> "", name |-> ""]
CardError == [outcome |-> "raised", url |-> "", name |-> ""]

\* _parse_single_card: None without a link, without href, or without a name
\* in both the name element and the link; otherwise the snapshot, unless
\* building it raises.
_parse_single_card(card) ==
    IF card.link = "none" THEN NoSnapshot
    ELSE IF card.link = "nohref" THEN NoSnapshot
    ELSE IF card.faulty THEN CardError
    ELSE LET name == IF card.name # "" THEN card.name ELSE card.link_text IN
         IF name = "" THEN NoSnapshot
         ELSE [outcome |-> "snapshot", url |-> card.href, name |-> name]

\* The loop of parse_products with the last card's exception escaping.
RECURSIVE parse_products_aborting(_)
parse_products_aborting(html) ==
    IF html = <<>> THEN <<>>
    ELSE LET product == _parse_single_card(html[Len(html)])
             products == parse_products_aborting(SubSeq(html, 1, Len(html) - 1)) IN
         IF product.outcome = "raised" THEN <<>>
         ELSE IF product.outcome = "snapshot" THEN Append(products, product)
         ELSE products

\* parse_products: the cards in document order; the snapshot of each is
\* appended, None is passed over, an exception is logged and passed over.
RECURSIVE parse_products(_)
parse_products(html) ==
    IF html = <<>> THEN <<>>
    ELSE LET product == _parse_single_card(html[Len(html)])
             products == parse_products(SubSeq(html, 1, Len(html) - 1)) IN
         IF product.outcome = "snapshot" THEN Append(products, product)
         ELSE products

\* What a page request can yield: an error, or a page.
Responses ==
    {[ok |-> FALSE, html |-> <<>>]} \cup {[ok |-> TRUE, html |-> h] : h \in Pages}

\* No outbound request yet, and no pair of them.
NoRequest == [kind |-> "none", at |-> 0]
NoGap == [from |-> "none", to |-> "none", seconds |-> 0]

ScrapeInit ==
    /\ s_pc = "idle"
    /\ s_now = 1
    /\ s_last_scrape_time = 0
    /\ s_last_request_time = 0
    /\ s_robots_checked = FALSE
    /\ s_robots_allowed = FALSE
    /\ s_attempt = 0
    /\ s_result = <<>>
    /\ s_calls = 0
    /\ s_failures = 0
    /\ s_exit = "none"
    /\ s_start = 0
    /\ s_periodic = FALSE
    /\ s_done = 0
    /\ s_prior = 0
    /\ s_out = <<>>
    /\ s_prev_out = NoRequest
    /\ s_gap = NoGap
    /\ s_policy = "none"
    /\ s_robots_requests = 0
    /\ s_sleeps = <<>>
    /\ s_light = "none"
    /\ s_render_calls = 0
    /\ s_render_html = <<>>

ScrapeIdle ==
    /\ ScrapeInit

\* History of an outbound request of the given kind that starts at the given
\* time: the requests of the current call, the last request, and the distance
\* between the last two.
Outbound(kind, at) ==
    /\ s_out' = Append(s_out, kind)
    /\ s_prev_out' = [kind |-> kind, at |-> at]
    /\ s_gap' = IF s_prev_out = NoRequest
                THEN s_gap
                ELSE [from |-> s_prev_out.kind, to |-> kind,
                      seconds |-> at - s_prev_out.at]

\* The time left until one interval has passed since the last call started:
\* the caller is the job on its IntervalTrigger.
UntilNextFiring ==
    IF s_calls > 0 /\ s_start + SCRAPE_INTERVAL_MINUTES * 60 > s_now
    THEN {s_start + SCRAPE_INTERVAL_MINUTES * 60 - s_now}
    ELSE {}

\* time.monotonic() moves on between two calls.
ClockTick ==
    /\ s_pc \in {"idle", "returned", "raised"}
    /\ \E d \in TickSeconds \cup UntilNextFiring :
          /\ s_now + d <= MaxClock
          /\ s_now' = s_now + d
    /\ UNCHANGED <<s_pc, s_last_scrape_time, s_last_request_time, s_robots_checked,
                   s_robots_allowed, s_attempt, s_result, s_calls, s_failures,
                   s_exit, s_start, s_periodic, s_done, s_prior, s_out, s_prev_out, s_gap,
                   s_policy, s_robots_requests, s_sleeps, s_light, s_render_calls,
                   s_render_html>>
    /\ UNCHANGED outsideScrape

\* A caller awaits scrape(locale).
ScrapeCall ==
    /\ s_pc \in {"idle", "returned", "raised"}
    /\ s_calls < MaxCalls
    /\ s_calls' = s_calls + 1
    /\ s_pc' = "called"
    /\ s_attempt' = 0
    /\ s_result' = <<>>
    /\ s_failures' = 0
    /\ s_exit' = "none"
    /\ s_start' = s_now
    /\ s_periodic' = (s_calls > 0 /\ s_now = s_start + SCRAPE_INTERVAL_MINUTES * 60)
    /\ s_prior' = s_done
    /\ s_out' = <<>>
    /\ s_sleeps' = <<>>
    /\ s_light' = "none"
    /\ s_render_calls' = 0
    /\ s_render_html' = <<>>
    /\ UNCHANGED <<s_now, s_last_scrape_time, s_last_request_time, s_robots_checked,
                   s_robots_allowed, s_done, s_prev_out, s_gap, s_policy,
                   s_robots_requests>>
    /\ UNCHANGED outsideScrape

\* Mutant of throttled: the interval counts minutes as half minutes.
throttled_half_interval ==
    /\ s_last_scrape_time > 0
    /\ s_now - s_last_scrape_time < SCRAPE_INTERVAL_MINUTES * 30

\* scrape's interval test: _last_scrape_time > 0 and elapsed < interval.
throttled ==
    /\ s_last_scrape_time > 0
    /\ s_now - s_last_scrape_time < SCRAPE_INTERVAL_MINUTES * 60

\* scrape returns [] inside the interval.
ScrapeThrottled ==
    /\ s_pc = "called"
    /\ throttled
    /\ s_pc' = "returned"
    /\ s_result' = <<>>
    /\ s_exit' = "throttled"
    /\ UNCHANGED <<s_now, s_last_scrape_time, s_last_request_time, s_robots_checked,
                   s_robots_allowed, s_attempt, s_calls, s_failures, s_start, s_periodic,
                   s_done, s_prior, s_out, s_prev_out, s_gap, s_policy,
                   s_robots_requests, s_sleeps, s_light, s_render_calls,
                   s_render_html>>
    /\ UNCHANGED outsideScrape

\* What scrape does with the answer of _check_robots_txt.
robots_answer(allowed) ==
    IF allowed
    THEN /\ s_pc' = "fetch"
         /\ s_attempt' = 1
         /\ UNCHANGED <<s_result, s_exit>>
    ELSE /\ s_pc' = "returned"
         /\ s_result' = <<>>
         /\ s_exit' = "robots"
         /\ UNCHANGED s_attempt

\* Mutant of CheckRobots: the cached answer is not consulted, a checked
\* instance is allowed.
CheckRobots_cached_allows ==
    /\ s_pc = "called"
    /\ ~throttled
    /\ IF s_robots_checked
       THEN /\ robots_answer(TRUE)
            /\ UNCHANGED <<s_now, s_robots_checked, s_robots_allowed, s_out,
                           s_prev_out, s_gap, s_policy, s_robots_requests>>
       ELSE \E answer \in {"allow", "disallow", "missing", "error"},
               took \in ResponseSeconds :
               /\ s_now + took <= MaxClock
               /\ Outbound("robots", s_now)
               /\ s_robots_requests' = s_robots_requests + 1
               /\ s_now' = s_now + took
               /\ s_policy' = answer
               /\ s_robots_checked' = TRUE
               /\ s_robots_allowed' = (answer # "disallow")
               /\ robots_answer(answer # "disallow")
    /\ UNCHANGED <<s_last_scrape_time, s_last_request_time, s_calls, s_failures,
                   s_start, s_periodic, s_done, s_prior, s_sleeps, s_light, s_render_calls,
                   s_render_html>>
    /\ UNCHANGED outsideScrape

\* Mutant of CheckRobots: a policy request that failed is asked again by the
\* next call.
CheckRobots_error_asked_again ==
    /\ s_pc = "called"
    /\ ~throttled
    /\ IF s_robots_checked
       THEN /\ robots_answer(s_robots_allowed)
            /\ UNCHANGED <<s_now, s_robots_checked, s_robots_allowed, s_out,
                           s_prev_out, s_gap, s_policy, s_robots_requests>>
       ELSE \E answer \in {"allow", "disallow", "missing", "error"},
               took \in ResponseSeconds :
               /\ s_now + took <= MaxClock
               /\ Outbound("robots", s_now)
               /\ s_robots_requests' = s_robots_requests + 1
               /\ s_now' = s_now + took
               /\ s_policy' = answer
               /\ s_robots_checked' = (answer # "error")
               /\ s_robots_allowed' = (answer # "disallow")
               /\ robots_answer(answer # "disallow")
    /\ UNCHANGED <<s_last_scrape_time, s_last_request_time, s_calls, s_failures,
                   s_start, s_periodic, s_done, s_prior, s_sleeps, s_light, s_render_calls,
                   s_render_html>>
    /\ UNCHANGED outsideScrape

\* _check_robots_txt and scrape's test of its answer: the cached answer
\* once checked, without a request; otherwise robots.txt is requested, with
\* no wait before the request and no note of its time, and allows,
\* disallows, is missing (non-200) or fails to load, the last two counting
\* as allowed.
CheckRobots ==
    /\ s_pc = "called"
    /\ ~throttled
    /\ IF s_robots_checked
       THEN /\ robots_answer(s_robots_allowed)
            /\ UNCHANGED <<s_now, s_robots_checked, s_robots_allowed, s_out,
                           s_prev_out, s_gap, s_policy, s_robots_requests>>
       ELSE \E answer \in {"allow", "disallow", "missing", "error"},
               took \in ResponseSeconds :
               /\ s_now + took <= MaxClock
               /\ Outbound("robots", s_now)
               /\ s_robots_requests' = s_robots_requests + 1
               /\ s_now' = s_now + took
               /\ s_policy' = answer
               /\ s_robots_checked' = TRUE
               /\ s_robots_allowed' = (answer # "disallow")
               /\ robots_answer(answer # "disallow")
    /\ UNCHANGED <<s_last_scrape_time, s_last_request_time, s_calls, s_failures,
                   s_start, s_periodic, s_done, s_prior, s_sleeps, s_light, s_render_calls,
                   s_render_html>>
    /\ UNCHANGED outsideScrape

\* _enforce_request_delay: the time at which it returns, having slept for
\* what is missing of the minimum delay since _last_request_time.
_enforce_request_delay ==
    LET elapsed == s_now - s_last_request_time
    IN  IF elapsed < SCRAPE_MIN_DELAY_SECONDS
        THEN s_now + (SCRAPE_MIN_DELAY_SECONDS - elapsed)
        ELSE s_now

\* The end of scrape at the given time: _last_scrape_time is set and the
\* products returned.
scrape_complete(products, exit, at) ==
    /\ s_last_scrape_time' = at
    /\ s_done' = at
    /\ s_result' = products
    /\ s_pc' = "returned"
    /\ s_exit' = exit

\* Mutant of backoff_seconds: the same sleep after every failed attempt.
backoff_seconds_constant(attempt) == BACKOFF_BASE_SECONDS

\* _fetch_html's backoff after the given attempt: _BACKOFF_BASE_SECONDS ** attempt.
backoff_seconds(attempt) == BACKOFF_BASE_SECONDS ^ attempt

\* Mutant of needs_fallback: the rendering fallback whatever was parsed.
needs_fallback_always(products) == TRUE

\* scrape's test after the first parse: `if not products`.
needs_fallback(products) == products = <<>>

\* What scrape does with the markup _fetch_html returned at the given time:
\* the parsed products end the call, or none were parsed and the rendering
\* fallback is next.
light_fetched(html, at) ==
    /\ s_light' = IF parse_products(html) = <<>> THEN "empty" ELSE "nonempty"
    /\ IF needs_fallback(parse_products(html))
       THEN /\ s_pc' = "playwright"
            /\ UNCHANGED <<s_last_scrape_time, s_done, s_result, s_exit>>
       ELSE scrape_complete(parse_products(html), "parsed", at)

\* Mutant of FetchHtml: a fetch that exhausts its retries makes scrape
\* return the empty list.
FetchHtml_returns_empty ==
    /\ s_pc = "fetch"
    /\ \E response \in Responses, took \in ResponseSeconds :
          LET sent == _enforce_request_delay
              backoff == backoff_seconds(s_attempt)
          IN  /\ s_last_request_time' = sent
              /\ Outbound("page", sent)
              /\ IF ~response.ok
                 THEN /\ s_failures' = s_failures + 1
                      /\ IF s_attempt < SCRAPER_MAX_RETRIES
                         THEN /\ s_attempt' = s_attempt + 1
                              /\ s_sleeps' = Append(s_sleeps, backoff)
                              /\ s_now' = sent + took + backoff
                              /\ UNCHANGED <<s_pc, s_exit, s_result>>
                         ELSE /\ s_pc' = "returned"
                              /\ s_result' = <<>>
                              /\ s_exit' = "fetch_exhausted"
                              /\ s_now' = sent + took
                              /\ UNCHANGED <<s_attempt, s_sleeps>>
                      /\ UNCHANGED <<s_last_scrape_time, s_done, s_light>>
                 ELSE /\ s_now' = sent + took
                      /\ light_fetched(response.html, sent + took)
                      /\ UNCHANGED <<s_attempt, s_failures, s_sleeps>>
              /\ s_now' <= MaxClock
    /\ UNCHANGED <<s_robots_checked, s_robots_allowed, s_calls, s_start, s_periodic, s_prior,
                   s_policy, s_robots_requests, s_render_calls, s_render_html>>
    /\ UNCHANGED outsideScrape

\* One pass of _fetch_html's loop and, on a response, scrape's parse: the
\* request waits for _enforce_request_delay; a failed request is retried
\* after the backoff sleep, the last failure raises RuntimeError without a
\* sleep, which scrape does not catch; the first response ends the loop.
FetchHtml ==
    /\ s_pc = "fetch"
    /\ \E response \in Responses, took \in ResponseSeconds :
          LET sent == _enforce_request_delay
              backoff == backoff_seconds(s_attempt)
          IN  /\ s_last_request_time' = sent
              /\ Outbound("page", sent)
              /\ IF ~response.ok
                 THEN /\ s_failures' = s_failures + 1
                      /\ IF s_attempt < SCRAPER_MAX_RETRIES
                         THEN /\ s_attempt' = s_attempt + 1
                              /\ s_sleeps' = Append(s_sleeps, backoff)
                              /\ s_now' = sent + took + backoff
                              /\ UNCHANGED <<s_pc, s_exit>>
                         ELSE /\ s_pc' = "raised"
                              /\ s_exit' = "fetch_exhausted"
                              /\ s_now' = sent + took
                              /\ UNCHANGED <<s_attempt, s_sleeps>>
                      /\ UNCHANGED <<s_last_scrape_time, s_done, s_result, s_light>>
                 ELSE /\ s_now' = sent + took
                      /\ light_fetched(response.html, sent + took)
                      /\ UNCHANGED <<s_attempt, s_failures, s_sleeps>>
              /\ s_now' <= MaxClock
    /\ UNCHANGED <<s_robots_checked, s_robots_allowed, s_calls, s_start, s_periodic, s_prior,
                   s_policy, s_robots_requests, s_render_calls, s_render_html>>
    /\ UNCHANGED outsideScrape

\* _fetch_with_playwright and scrape's second parse: the browser may fail
\* before it requests anything; otherwise page.goto requests the page, with
\* no wait before the request and no note of its time.  Any failure, a page
\* without product cards included (wait_for_selector times out), raises
\* RuntimeError, which scrape does not catch.
FetchWithPlaywright ==
    /\ s_pc = "playwright"
    /\ s_render_calls' = s_render_calls + 1
    /\ \E launched \in BOOLEAN, response \in Responses, took \in ResponseSeconds :
          /\ s_now + took <= MaxClock
          /\ s_now' = s_now + took
          /\ IF launched
             THEN Outbound("render", s_now)
             ELSE UNCHANGED <<s_out, s_prev_out, s_gap>>
          /\ IF ~launched \/ ~response.ok \/ response.html = <<>>
             THEN /\ s_pc' = "raised"
                  /\ s_exit' = "fallback_failed"
                  /\ UNCHANGED <<s_last_scrape_time, s_done, s_result, s_render_html>>
             ELSE /\ s_render_html' = response.html
                  /\ scrape_complete(parse_products(response.html), "fallback",
                                     s_now + took)
    /\ UNCHANGED <<s_last_request_time, s_robots_checked, s_robots_allowed,
                   s_attempt, s_calls, s_failures, s_start, s_periodic, s_prior, s_policy,
                   s_robots_requests, s_sleeps, s_light>>
    /\ UNCHANGED outsideScrape

ScrapeNext ==
    \/ ClockTick
    \/ ScrapeCall
    \/ ScrapeThrottled
    \/ CheckRobots
    \/ FetchHtml
    \/ FetchWithPlaywright

(***************************************************************************)
(* AlertScheduler start, stop and trigger_now (scheduler/scheduler.py)     *)
(*                                                                         *)
(* The periodic driver and the manual trigger around _run_cycle.  The      *)
(* clock counts minutes.  A cycle in flight is suspended at one await of   *)
(* _process_locale: c_pc names it ("scrape", "get_latest", "diff",         *)
(* "upsert", "commit", "match").  Each locale has its scraper instance,    *)
(* with its own _last_scrape_time.                                         *)
(***************************************************************************)

\* Bounds: the clock and the number of trigger_now calls.
MaxTime == 181
MaxTriggers == 2

\* The time that passes in one step.
CycleTickMinutes == {30, 60}

\* next_run_time of a job: None, and the value add_job takes when the
\* argument is left out.
NoRunTime == -1
Undefined == -2

\* add_job(..., trigger=IntervalTrigger(minutes=interval), next_run_time=...)
\* of the scheduler library: the job keeps the next_run_time it is given,
\* None included, and a job whose next_run_time is None is paused; only
\* when the argument is left out is the first run time taken from the
\* trigger.
add_job(next_run_time, now) ==
    IF next_run_time = Undefined THEN now + SCRAPE_INTERVAL_MINUTES
    ELSE next_run_time

CycleInit ==
    /\ c_state = "created"
    /\ c_now = 1
    /\ c_started_at = 0
    /\ c_next_run_time = NoRunTime
    /\ c_firings = 0
    /\ c_triggers = 0
    /\ c_pc = "idle"
    /\ c_li = 0
    /\ c_source = "none"
    /\ c_last_scrape_time = [l \in Locales |-> 0]
    /\ c_entered = {}
    /\ c_throttled = {}
    /\ c_ended = "none"
    /\ c_cancelled_at = "none"

CycleIdle ==
    /\ CycleInit

\* _run_cycle is entered: the loop over self._scrapers starts.
run_cycle(source) ==
    /\ c_pc' = "scrape"
    /\ c_li' = 1
    /\ c_source' = source
    /\ c_entered' = {}
    /\ c_throttled' = {}
    /\ c_ended' = "none"

\* start(): the job is added with next_run_time=None and the scheduler is
\* started.
CycleStart ==
    /\ c_state = "created"
    /\ c_state' = "running"
    /\ c_started_at' = c_now
    /\ c_next_run_time' = add_job(NoRunTime, c_now)
    /\ UNCHANGED <<c_now, c_firings, c_triggers, c_pc, c_li, c_source,
                   c_last_scrape_time, c_entered, c_throttled, c_ended,
                   c_cancelled_at>>
    /\ UNCHANGED outsideCycle

\* Time passes; the running scheduler runs the job when it is due, that is
\* when its next_run_time is a time that has come, unless the job's last
\* run is still in flight.
CycleTick ==
    /\ \E d \in CycleTickMinutes :
          /\ c_now + d <= MaxTime
          /\ c_now' = c_now + d
    /\ IF /\ c_state = "running"
          /\ c_next_run_time # NoRunTime
          /\ c_next_run_time <= c_now'
       THEN /\ c_next_run_time' = c_next_run_time + SCRAPE_INTERVAL_MINUTES
            /\ IF c_pc = "idle"
               THEN /\ run_cycle("job")
                    /\ c_firings' = c_firings + 1
               ELSE UNCHANGED <<c_pc, c_li, c_source, c_entered, c_throttled,
                                c_ended, c_firings>>
       ELSE UNCHANGED <<c_next_run_time, c_pc, c_li, c_source, c_entered,
                        c_throttled, c_ended, c_firings>>
    /\ UNCHANGED <<c_state, c_started_at, c_triggers, c_last_scrape_time,
                   c_cancelled_at>>
    /\ UNCHANGED outsideCycle

\* trigger_now(): _run_cycle is awaited at once.
TriggerNow ==
    /\ c_state \in {"created", "running"}
    /\ c_pc = "idle"
    /\ c_triggers < MaxTriggers
    /\ c_triggers' = c_triggers + 1
    /\ run_cycle("manual")
    /\ UNCHANGED <<c_state, c_now, c_started_at, c_next_run_time, c_firings,
                   c_last_scrape_time, c_cancelled_at>>
    /\ UNCHANGED outsideCycle

\* The for loop of _run_cycle after _process_locale ended, by return or by
\* an exception it logs.
next_locale ==
    IF c_li < Len(SchedulerLocales)
    THEN /\ c_li' = c_li + 1
         /\ c_pc' = "scrape"
         /\ UNCHANGED c_ended
    ELSE /\ c_pc' = "idle"
         /\ c_ended' = "complete"
         /\ UNCHANGED c_li

\* The interval test of the locale's scraper (scrape, first statement).
cycle_throttled(locale) ==
    /\ c_last_scrape_time[locale] > 0
    /\ c_now - c_last_scrape_time[locale] < SCRAPE_INTERVAL_MINUTES

\* _process_locale awaits scraper.scrape(locale): inside the interval it
\* returns [] without a request; otherwise it is blocked by robots.txt,
\* raises, or completes with products or without.
CycleScrape ==
    /\ c_pc = "scrape"
    /\ LET locale == SchedulerLocales[c_li] IN
       /\ c_entered' = c_entered \cup {locale}
       /\ IF cycle_throttled(locale)
          THEN /\ c_throttled' = c_throttled \cup {locale}
               /\ next_locale
               /\ UNCHANGED c_last_scrape_time
          ELSE /\ UNCHANGED c_throttled
               /\ \E outcome \in {"products", "empty", "blocked", "raised"} :
                     /\ c_last_scrape_time' =
                          IF outcome \in {"products", "empty"}
                          THEN [c_last_scrape_time EXCEPT ![locale] = c_now]
                          ELSE c_last_scrape_time
                     /\ IF outcome = "products"
                        THEN /\ c_pc' = "get_latest"
                             /\ UNCHANGED <<c_li, c_ended>>
                        ELSE next_locale
    /\ UNCHANGED <<c_state, c_now, c_started_at, c_next_run_time, c_firings,
                   c_triggers, c_source, c_cancelled_at>>
    /\ UNCHANGED outsideCycle

\* The awaits of _process_locale inside the session block, one after the
\* other: get_latest_by_locale, diff, bulk_upsert, commit, and with changes
\* the loop over the users.
CycleStage ==
    /\ c_pc \in {"get_latest", "diff", "upsert", "commit", "match"}
    /\ \/ /\ c_pc = "get_latest"
          /\ c_pc' = "diff"
          /\ UNCHANGED <<c_li, c_ended>>
       \/ /\ c_pc = "diff"
          /\ c_pc' = "upsert"
          /\ UNCHANGED <<c_li, c_ended>>
       \/ /\ c_pc = "upsert"
          /\ c_pc' = "commit"
          /\ UNCHANGED <<c_li, c_ended>>
       \/ /\ c_pc = "commit"
          /\ c_pc' = "match"
          /\ UNCHANGED <<c_li, c_ended>>
       \/ /\ c_pc \in {"commit", "match"}
          /\ next_locale
    /\ UNCHANGED <<c_state, c_now, c_started_at, c_next_run_time, c_firings,
                   c_triggers, c_source, c_last_scrape_time, c_entered,
                   c_throttled, c_cancelled_at>>
    /\ UNCHANGED outsideCycle

\* stop(): self._scheduler.shutdown(wait=False) returns without waiting for
\* a cycle in flight.
CycleStop ==
    /\ c_state = "running"
    /\ c_state' = "shutdown"
    /\ UNCHANGED <<c_now, c_started_at, c_next_run_time, c_firings, c_triggers,
                   c_pc, c_li, c_source, c_last_scrape_time, c_entered,
                   c_throttled, c_ended, c_cancelled_at>>
    /\ UNCHANGED outsideCycle

\* After stop() a cycle still in flight is cancelled at the await it is
\* suspended on (the executor cancels the task of a running job; the
\* teardown that follows stop ends any other task): CancelledError is not
\* an Exception, _run_cycle does not catch it, and the session block is
\* left without a commit.
CycleCancelled ==
    /\ c_state = "shutdown"
    /\ c_pc # "idle"
    /\ c_cancelled_at' = c_pc
    /\ c_pc' = "idle"
    /\ c_ended' = "cancelled"
    /\ UNCHANGED <<c_state, c_now, c_started_at, c_next_run_time, c_firings,
                   c_triggers, c_li, c_source, c_last_scrape_time, c_entered,
                   c_throttled>>
    /\ UNCHANGED outsideCycle

CycleNext ==
    \/ CycleStart
    \/ CycleTick
    \/ TriggerNow
    \/ CycleScrape
    \/ CycleStage
    \/ CycleStop
    \/ CycleCancelled

(***************************************************************************)
(* parse_products and _parse_price as functions (scraper/scraper.py)       *)
(*                                                                         *)
(* A text is the sequence of its characters.  A number is kept as its sign,*)
(* the digits before the point without leading zeros and the digits after  *)
(* it without trailing zeros; the texts here have the one digit "1".       *)
(***************************************************************************)

\* Bounds: the cards of a parsed page, the characters of a price text.
MaxFragments == 2
MaxText == 5

\* The characters of a price text: a digit, both separators, the space,
\* the dash of ",-" and the letters of the currency word "kr".
PriceChars == {"1", ".", ",", " ", "-", "k", "r"}

\* The cards a page can hold; the card at place i has the href of place i.
Hrefs == <<"u1", "u2", "u3">>
CardsAt(i) ==
    {Card(Hrefs[i], link, name, link_text, faulty) :
        link \in {"none", "nohref", "href"}, name \in {"", "n1"},
        link_text \in {"", "t1"}, faulty \in BOOLEAN}
ParsedPages ==
    {html \in SeqUpTo(UNION {CardsAt(i) : i \in 1..MaxFragments}, MaxFragments) :
        \A i \in 1..Len(html) : html[i] \in CardsAt(i)}

\* The currency symbols and words _parse_price removes, in its order; of
\* them the texts here can hold "kr" and ",-".
PriceWords == << <<"k", "r">>, <<",", "-">> >>

\* A number: 0.0 is Zero.
Number(negative, whole, fraction) ==
    [negative |-> negative, whole |-> whole, fraction |-> fraction]
Zero == Number(FALSE, <<>>, <<>>)

\* str.strip(): leading and trailing spaces go.
RECURSIVE strip(_)
strip(text) ==
    IF text = <<>> THEN <<>>
    ELSE IF Head(text) = " " THEN strip(Tail(text))
    ELSE IF text[Len(text)] = " " THEN strip(SubSeq(text, 1, Len(text) - 1))
    ELSE text

\* str.replace(word, by): every occurrence from the left, none overlapping.
RECURSIVE replace(_, _, _)
replace(text, word, by) ==
    IF Len(text) < Len(word) THEN text
    ELSE IF SubSeq(text, 1, Len(word)) = word
         THEN by \o replace(SubSeq(text, Len(word) + 1, Len(text)), word, by)
         ELSE <<Head(text)>> \o replace(Tail(text), word, by)

\* The loop over the symbols and words, then strip.
RECURSIVE remove_words(_, _)
remove_words(text, words) ==
    IF words = <<>> THEN text
    ELSE remove_words(replace(text, Head(words), <<>>), Tail(words))

\* `char in text`.
Contains(text, char) == \E i \in 1..Len(text) : text[i] = char

\* text.split(","): the parts between the commas.
RECURSIVE split(_, _)
split(text, char) ==
    IF ~Contains(text, char) THEN <<text>>
    ELSE LET i == CHOOSE k \in 1..Len(text) :
                     /\ text[k] = char
                     /\ \A h \in 1..(k - 1) : text[h] # char IN
         <<SubSeq(text, 1, i - 1)>> \o split(SubSeq(text, i + 1, Len(text)), char)

\* float(text) on the characters of the texts here: an optional sign, then
\* digits with at most one point among them and at least one digit; any
\* other text raises ValueError.
IsDigits(text) == \A i \in 1..Len(text) : text[i] = "1"
float_raises(text) ==
    LET unsigned == IF text # <<>> /\ Head(text) = "-" THEN Tail(text) ELSE text
        parts == split(unsigned, ".") IN
    \/ Len(parts) > 2
    \/ \E i \in 1..Len(parts) : ~IsDigits(parts[i])
    \/ \A i \in 1..Len(parts) : parts[i] = <<>>
float(text) ==
    LET negative == text # <<>> /\ Head(text) = "-"
        unsigned == IF negative THEN Tail(text) ELSE text
        parts == split(unsigned, ".") IN
    Number(negative, parts[1], IF Len(parts) = 2 THEN parts[2] ELSE <<>>)

\* The comma branch of _parse_price with every comma taken for a thousands
\* separator.
commas_cleaned_as_thousands(cleaned) == replace(cleaned, <<",">>, <<>>)

\* The branches of _parse_price on "," and ".".
commas_cleaned(cleaned) ==
    IF Contains(cleaned, ",") /\ Contains(cleaned, ".")
    THEN replace(replace(cleaned, <<".">>, <<>>), <<",">>, <<".">>)
    ELSE IF Contains(cleaned, ",")
    THEN LET parts == split(cleaned, ",") IN
         IF Len(parts) = 2 /\ Len(parts[2]) = 2
         THEN replace(cleaned, <<",">>, <<".">>)
         ELSE replace(cleaned, <<",">>, <<>>)
    ELSE cleaned

\* _parse_price: strip, remove the currency symbols and words, strip, the
\* separators, remove the spaces, float, and 0.0 on ValueError.
_parse_price(text) ==
    LET cleaned == strip(remove_words(strip(text), PriceWords))
        number == replace(commas_cleaned(cleaned), <<" ">>, <<>>) IN
    IF float_raises(number) THEN Zero ELSE float(number)

ParseInit ==
    /\ p_pc = "call"
    /\ p_products = <<>>
    /\ p_price = Zero
    /\ \/ /\ p_kind = "page"
          /\ p_html \in ParsedPages
          /\ p_text = <<>>
       \/ /\ p_kind = "text"
          /\ p_html = <<>>
          /\ p_text \in SeqUpTo(PriceChars, MaxText)

ParseIdle ==
    /\ p_pc = "call"
    /\ p_products = <<>>
    /\ p_price = Zero
    /\ p_kind = "none"
    /\ p_html = <<>>
    /\ p_text = <<>>

\* parse_products(html) is called and returns.
ParseProducts ==
    /\ p_pc = "call"
    /\ p_kind = "page"
    /\ p_products' = parse_products(p_html)
    /\ p_pc' = "done"
    /\ UNCHANGED <<p_kind, p_html, p_text, p_price>>
    /\ UNCHANGED outsideParse

\* _parse_price(text) is called and returns.
ParsePrice ==
    /\ p_pc = "call"
    /\ p_kind = "text"
    /\ p_price' = _parse_price(p_text)
    /\ p_pc' = "done"
    /\ UNCHANGED <<p_kind, p_html, p_text, p_products>>
    /\ UNCHANGED outsideParse

ParseNext ==
    \/ ParseProducts
    \/ ParsePrice

(***************************************************************************)
(* verify_magic_link (api/auth.py)                                         *)
(*                                                                         *)
(* One magic-link token and the verification requests for it.  Each        *)
(* request has its own session from get_db, which commits when the request *)
(* has been handled and rolls back when it raised.  A request is suspended *)
(* at the awaits of verify_magic_link: after the select ("selected") and   *)
(* after the flush ("flushed").                                            *)
(***************************************************************************)

\* Bounds: the verification requests for the token, the clock.
MaxRequests == 3
MaxAuthClock == 3

Requests == 1..MaxRequests

\* The times at which a token created at 0 can expire.
ExpiryTimes == {2}

AuthInit ==
    /\ a_now = 0
    /\ \E e \in ExpiryTimes : a_row = [used |-> FALSE, expires_at |-> e]
    /\ a_pc = [r \in Requests |-> "waiting"]
    /\ a_lock = 0
    /\ a_accepted = {}
    /\ a_verdict_at = [r \in Requests |-> 0]

AuthIdle ==
    /\ a_now = 0
    /\ a_row = [used |-> FALSE, expires_at |-> 0]
    /\ a_pc = [r \in Requests |-> "waiting"]
    /\ a_lock = 0
    /\ a_accepted = {}
    /\ a_verdict_at = [r \in Requests |-> 0]

\* Time passes.
AuthTick ==
    /\ a_now < MaxAuthClock
    /\ a_now' = a_now + 1
    /\ UNCHANGED <<a_row, a_pc, a_lock, a_accepted, a_verdict_at>>
    /\ UNCHANGED outsideAuth

\* select(MagicLinkToken).where(token == token, used.is_(False)): the row as
\* committed; the statement takes no lock and waits for none.
unused_row == ~a_row.used

\* verify_magic_link up to its first await after the tests: no unused row,
\* or one that has expired, is HTTP 400; otherwise the request goes on.
VerifySelect ==
    \E r \in Requests :
        /\ a_pc[r] = "waiting"
        /\ a_verdict_at' = [a_verdict_at EXCEPT ![r] = a_now]
        /\ a_pc' = [a_pc EXCEPT ![r] =
                       IF ~unused_row THEN "rejected"
                       ELSE IF a_row.expires_at < a_now THEN "rejected"
                       ELSE "selected"]
        /\ UNCHANGED <<a_now, a_row, a_lock, a_accepted>>
        /\ UNCHANGED outsideAuth

\* magic_link.used = True; await session.flush(): the update of the row by
\* its primary key, which waits while another transaction's update of the
\* row is not committed.
VerifyFlush ==
    \E r \in Requests :
        /\ a_pc[r] = "selected"
        /\ a_lock = 0
        /\ a_lock' = r
        /\ a_pc' = [a_pc EXCEPT ![r] = "flushed"]
        /\ UNCHANGED <<a_now, a_row, a_accepted, a_verdict_at>>
        /\ UNCHANGED outsideAuth

\* The user is looked up or created and returned; the route answers 200 and
\* the request's session commits.
VerifyReturn ==
    \E r \in Requests :
        /\ a_pc[r] = "flushed"
        /\ a_pc' = [a_pc EXCEPT ![r] = "accepted"]
        /\ a_accepted' = a_accepted \cup {r}
        /\ a_row' = [a_row EXCEPT !.used = TRUE]
        /\ a_lock' = 0
        /\ UNCHANGED <<a_now, a_verdict_at>>
        /\ UNCHANGED outsideAuth

AuthNext ==
    \/ AuthTick
    \/ VerifySelect
    \/ VerifyFlush
    \/ VerifyReturn

(***************************************************************************)
(* The snapshot table over successive and overlapping runs                 *)
(* (products/repository.py, scheduler/scheduler.py)                        *)
(*                                                                         *)
(* _process_locale of one locale, run again and again, by the job or by    *)
(* trigger_now; two runs can be in flight at once.  Every run has its own  *)
(* session: what it flushed is seen by the others once it has committed.   *)
(* A row is a snapshot with its id and its scraped_at.  A run whose scrape *)
(* returned nothing does not reach the table and is left out.              *)
(***************************************************************************)

\* Bound: the runs that scrape.
MaxRuns == 3

\* The runs that can be in flight together.
Slots == {1, 2}

\* The lists a scrape returns here: u1 at price 1 or 2, u2, or both.
Listed(url, price) ==
    [url |-> url, locale |-> EN_GB, name |-> "n1", price |-> price,
     available_sizes |-> {"S"}, category |-> "Jackets"]
StoreScrapes ==
    {<<Listed("u1", 1)>>, <<Listed("u1", 2)>>, <<Listed("u2", 2)>>,
     <<Listed("u1", 1), Listed("u2", 2)>>, <<Listed("u1", 2), Listed("u2", 2)>>}

\* ProductSnapshotRow written from a snapshot.
Row(id, scraped_at, snapshot) ==
    [id |-> id, scraped_at |-> scraped_at, url |-> snapshot.url,
     locale |-> snapshot.locale, name |-> snapshot.name, price |-> snapshot.price,
     available_sizes |-> snapshot.available_sizes, category |-> snapshot.category]

\* ProductSnapshotRow.to_schema.
to_schema(row) ==
    [url |-> row.url, locale |-> row.locale, name |-> row.name, price |-> row.price,
     available_sizes |-> row.available_sizes, category |-> row.category]

\* get_latest_by_locale with its order_by(scraped_at.desc()): the rows of
\* the locale, newest first, rows of one scraped_at in any order.
latest_by_locale(rows, locale) ==
    {seq \in get_latest_by_locale(rows, locale) :
        \A i, j \in 1..Len(seq) : i < j => seq[i].scraped_at >= seq[j].scraped_at}

\* A run that is not in flight.
NoRun ==
    [pc |-> "idle", scraped_at |-> 0, new |-> <<>>, old |-> <<>>, changes |-> <<>>,
     prev |-> <<>>, updated |-> {}, inserted |-> {}]

NoEvent == [how |-> "none", at |-> "none"]

StoreInit ==
    /\ t_rows = {}
    /\ t_next_id = 1
    /\ t_started = 0
    /\ t_run = [k \in Slots |-> NoRun]
    /\ t_persisted = <<>>
    /\ t_event = NoEvent

StoreIdle ==
    /\ StoreInit

\* scraper.scrape returned a list that is not empty; the session is opened.
RunScraped ==
    \E k \in Slots, products \in StoreScrapes :
        /\ t_run[k].pc = "idle"
        /\ t_started < MaxRuns
        /\ t_started' = t_started + 1
        /\ t_run' = [t_run EXCEPT ![k] =
                        [NoRun EXCEPT !.pc = "get_latest", !.new = products,
                                      !.scraped_at = t_started + 1]]
        /\ UNCHANGED <<t_rows, t_next_id, t_persisted, t_event>>
        /\ UNCHANGED outsideStore

\* old_rows = get_latest_by_locale(locale), old_products = to_schema of each,
\* changes = diff(old_products, new_products).
RunDiff ==
    \E k \in Slots :
        /\ t_run[k].pc = "get_latest"
        /\ \E old_rows \in latest_by_locale(t_rows, EN_GB) :
              LET old_snapshots == [i \in 1..Len(old_rows) |-> to_schema(old_rows[i])] IN
              t_run' = [t_run EXCEPT ![k].pc = "upsert",
                                     ![k].old = old_snapshots,
                                     ![k].prev = t_persisted,
                                     ![k].changes = diff(old_snapshots, t_run[k].new)]
        /\ UNCHANGED <<t_rows, t_next_id, t_started, t_persisted, t_event>>
        /\ UNCHANGED outsideStore

\* The rows the select of bulk_upsert finds for each snapshot of the list.
found_rows(snapshots) ==
    [i \in 1..Len(snapshots) |-> existing(t_rows, snapshots[i])]

\* bulk_upsert(new_products) and its flush: a snapshot with one row found
\* updates it, a snapshot with none inserts a row with a fresh id; two rows
\* found make scalar_one_or_none raise.  An update waits while another
\* session's update of the same row is not committed.
RunUpsert ==
    \E k \in Slots :
        LET new == t_run[k].new
            hit == {i \in 1..Len(new) : found_rows(new)[i] # {}}
            miss == {i \in 1..Len(new) : found_rows(new)[i] = {}}
            ids == {row.id : row \in UNION {found_rows(new)[i] : i \in hit}} IN
        /\ t_run[k].pc = "upsert"
        /\ \A i \in hit : Cardinality(found_rows(new)[i]) = 1
        /\ \A other \in Slots \ {k} : \A row \in t_run[other].updated : row.id \notin ids
        /\ t_run' = [t_run EXCEPT
              ![k].pc = "commit",
              ![k].updated =
                  {Row((CHOOSE row \in found_rows(new)[i] : TRUE).id,
                       t_run[k].scraped_at, new[i]) : i \in hit},
              ![k].inserted =
                  {Row(t_next_id + Cardinality({j \in miss : j < i}),
                       t_run[k].scraped_at, new[i]) : i \in miss}]
        /\ t_next_id' = t_next_id + Cardinality(miss)
        /\ UNCHANGED <<t_rows, t_started, t_persisted, t_event>>
        /\ UNCHANGED outsideStore

\* session.commit() with what was flushed left out of the table.
committed_rows_dropped(rows, run) == rows

\* session.commit(): the updated rows replace their earlier state, the
\* inserted rows are added.
committed_rows(rows, run) ==
    {row \in rows : row.id \notin {u.id : u \in run.updated}}
        \cup run.updated \cup run.inserted

RunCommit ==
    \E k \in Slots :
        /\ t_run[k].pc = "commit"
        /\ t_rows' = committed_rows(t_rows, t_run[k])
        /\ t_persisted' = t_run[k].new
        /\ t_event' = [how |-> "committed", at |-> "commit"]
        /\ t_run' = [t_run EXCEPT ![k] = NoRun]
        /\ UNCHANGED <<t_next_id, t_started>>
        /\ UNCHANGED outsideStore

\* A store call raises, or the run is cancelled at one of its awaits, before
\* the commit is done: the session block is left and the session closed,
\* which rolls back what it flushed.
RunRolledBack ==
    \E k \in Slots :
        /\ t_run[k].pc \in {"get_latest", "upsert", "commit"}
        /\ t_event' = [how |-> "rolled_back", at |-> t_run[k].pc]
        /\ t_run' = [t_run EXCEPT ![k] = NoRun]
        /\ UNCHANGED <<t_rows, t_next_id, t_started, t_persisted>>
        /\ UNCHANGED outsideStore

StoreNext ==
    \/ RunScraped
    \/ RunDiff
    \/ RunUpsert
    \/ RunCommit
    \/ RunRolledBack

(***************************************************************************)
(* One cycle, call by call (scheduler/scheduler.py, scraper/scraper.py,    *)
(* notifier/)                                                              *)
(*                                                                         *)
(* _run_cycle from its first statement to its last, followed through the   *)
(* loops of _process_locale, scrape, _fetch_html and the notifiers.  Only   *)
(* the control flow is kept: every external call (HTTP request, rendering, *)
(* store operation, provider call) is one step that returns or fails; what *)
(* it returns is left open.  e_pc names the call the cycle is at.          *)
(***************************************************************************)

\* Bounds: the users get_all_with_devices returns, the alerts of one user.
MaxSubscribers == 2
MaxAlerts == 2

\* The delivery targets of one alert: the mail address, one web device and
\* one ios device.
Targets == {"mail", "web", "ios"}

\* The retry ceiling of each target's notifier.
target_max_retries(target) ==
    IF target = "mail" THEN EMAIL_MAX_RETRIES
    ELSE IF target = "web" THEN WEB_PUSH_MAX_RETRIES
    ELSE APNS_MAX_RETRIES

\* A history counter goes up by one; it stops one above the ceiling it is
\* compared with.
CountUp(n, ceiling) == IF n > ceiling THEN n ELSE n + 1

\* The counters of a locale as _process_locale is entered.
TermEnter(i) ==
    /\ e_li' = i
    /\ e_pc' = "scrape"
    /\ e_attempt' = 0
    /\ e_robots' = 0
    /\ e_pages' = 0
    /\ e_renders' = 0
    /\ e_users' = 0
    /\ e_alerts' = 0

TermInit ==
    /\ e_li = 1
    /\ e_pc = "scrape"
    /\ e_checked \in [Locales -> BOOLEAN]
    /\ e_attempt = 0
    /\ e_robots = 0
    /\ e_pages = 0
    /\ e_renders = 0
    /\ e_users = 0
    /\ e_alerts = 0
    /\ e_target = [t \in Targets |-> "none"]
    /\ e_calls = [t \in Targets |-> 0]
    /\ e_most = 0
    /\ e_ended = {}

TermIdle ==
    /\ e_li = 0
    /\ e_pc = "idle"
    /\ e_checked = [l \in Locales |-> FALSE]
    /\ e_attempt = 0
    /\ e_robots = 0
    /\ e_pages = 0
    /\ e_renders = 0
    /\ e_users = 0
    /\ e_alerts = 0
    /\ e_target = [t \in Targets |-> "none"]
    /\ e_calls = [t \in Targets |-> 0]
    /\ e_most = 0
    /\ e_ended = {}

\* _process_locale has ended, by return or by an exception that _run_cycle
\* logs: the loop over the locales goes on, and ends after the last.
TermLocaleEnds ==
    /\ e_pc = "ended"
    /\ e_ended' = e_ended \cup {SchedulerLocales[e_li]}
    /\ IF e_li < Len(SchedulerLocales)
       THEN TermEnter(e_li + 1)
       ELSE /\ e_pc' = "done"
            /\ UNCHANGED <<e_li, e_attempt, e_robots, e_pages, e_renders, e_users,
                           e_alerts>>
    /\ UNCHANGED <<e_checked, e_target, e_calls, e_most>>
    /\ UNCHANGED outsideTerm

\* scrape up to _fetch_html: the interval test returns [], or the robots
\* policy is looked up, requested when the instance has not asked yet; the
\* request raises something other than an HTTP error and leaves the policy
\* unasked, or the policy forbids the page, or it lets the fetch start.
TermRobots ==
    /\ e_pc = "scrape"
    /\ \/ /\ e_pc' = "ended"
          /\ UNCHANGED <<e_checked, e_robots, e_attempt>>
       \/ /\ ~e_checked[SchedulerLocales[e_li]]
          /\ e_robots' = CountUp(e_robots, 1)
          /\ e_pc' = "ended"
          /\ UNCHANGED <<e_checked, e_attempt>>
       \/ /\ e_robots' = IF e_checked[SchedulerLocales[e_li]] THEN e_robots
                         ELSE CountUp(e_robots, 1)
          /\ e_checked' = [e_checked EXCEPT ![SchedulerLocales[e_li]] = TRUE]
          /\ \/ /\ e_pc' = "ended"
                /\ UNCHANGED e_attempt
             \/ /\ e_pc' = "fetch"
                /\ e_attempt' = 1
    /\ UNCHANGED <<e_li, e_pages, e_renders, e_users, e_alerts, e_target, e_calls,
                   e_most, e_ended>>
    /\ UNCHANGED outsideTerm

\* The loop of _fetch_html with a failed attempt tried again as the same
\* attempt.
fetch_again_same(attempt) == attempt

\* The loop of _fetch_html: the attempt after a failed one.
fetch_again(attempt) == attempt + 1

\* One attempt of _fetch_html: the page request succeeds, and the page
\* parses to products or to none; or it fails, and the loop goes on to the
\* next attempt or, after the last, raises.  Any other exception leaves
\* scrape at once.
TermFetch ==
    /\ e_pc = "fetch"
    /\ e_pages' = CountUp(e_pages, SCRAPER_MAX_RETRIES)
    /\ \/ /\ e_pc' \in {"get_latest", "render", "ended"}
          /\ UNCHANGED e_attempt
       \/ IF e_attempt < SCRAPER_MAX_RETRIES
          THEN /\ e_attempt' = fetch_again(e_attempt)
               /\ UNCHANGED e_pc
          ELSE /\ e_pc' = "ended"
               /\ UNCHANGED e_attempt
    /\ UNCHANGED <<e_li, e_checked, e_robots, e_renders, e_users, e_alerts, e_target,
                   e_calls, e_most, e_ended>>
    /\ UNCHANGED outsideTerm

\* _fetch_with_playwright: one rendering request; it raises, or the markup
\* parses to products or to none.
TermRender ==
    /\ e_pc = "render"
    /\ e_renders' = CountUp(e_renders, 1)
    /\ e_pc' \in {"get_latest", "ended"}
    /\ UNCHANGED <<e_li, e_checked, e_attempt, e_robots, e_pages, e_users, e_alerts,
                   e_target, e_calls, e_most, e_ended>>
    /\ UNCHANGED outsideTerm

\* The store operations of _process_locale, one after the other:
\* get_latest_by_locale (and the diff), bulk_upsert, commit (after which no
\* change ends the locale), get_all_with_devices.  Each can raise.
TermStore ==
    /\ e_pc \in {"get_latest", "upsert", "commit", "users"}
    /\ \/ /\ e_pc' = "ended"
          /\ UNCHANGED e_users
       \/ /\ e_pc = "get_latest"
          /\ e_pc' = "upsert"
          /\ UNCHANGED e_users
       \/ /\ e_pc = "upsert"
          /\ e_pc' = "commit"
          /\ UNCHANGED e_users
       \/ /\ e_pc = "commit"
          /\ e_pc' = "users"
          /\ UNCHANGED e_users
       \/ /\ e_pc = "users"
          /\ e_pc' = "user"
          /\ e_users' \in 0..MaxSubscribers
    /\ UNCHANGED <<e_li, e_checked, e_attempt, e_robots, e_pages, e_renders, e_alerts,
                   e_target, e_calls, e_most, e_ended>>
    /\ UNCHANGED outsideTerm

\* The head of the loop over the users: the list is exhausted; or the
\* user's preferences raise; or the user is passed over (other region, no
\* alert); or the matcher returns alerts.
TermUser ==
    /\ e_pc = "user"
    /\ IF e_users = 0
       THEN /\ e_pc' = "ended"
            /\ UNCHANGED <<e_users, e_alerts>>
       ELSE \/ /\ e_pc' = "ended"
               /\ UNCHANGED <<e_users, e_alerts>>
            \/ /\ e_users' = e_users - 1
               /\ UNCHANGED <<e_pc, e_alerts>>
            \/ /\ e_alerts' \in 1..MaxAlerts
               /\ e_pc' = "notify"
               /\ UNCHANGED e_users
    /\ UNCHANGED <<e_li, e_checked, e_attempt, e_robots, e_pages, e_renders, e_target,
                   e_calls, e_most, e_ended>>
    /\ UNCHANGED outsideTerm

\* notify(alert, user) creates its tasks: mail always, web push and APNs
\* when the user has such a device.
TermNotify ==
    /\ e_pc = "notify"
    /\ \E devices \in SUBSET {"web", "ios"} :
          e_target' = [t \in Targets |->
                          IF t = "mail" \/ t \in devices THEN "pending" ELSE "none"]
    /\ e_calls' = [t \in Targets |-> 0]
    /\ e_pc' = "sending"
    /\ UNCHANGED <<e_li, e_checked, e_attempt, e_robots, e_pages, e_renders, e_users,
                   e_alerts, e_most, e_ended>>
    /\ UNCHANGED outsideTerm

\* One provider call for one target, the tasks in any order: the send
\* returns after it (delivered, the last attempt failed, or it raised
\* outside the retry loop), or the call failed and is tried again.
TermSend ==
    /\ e_pc = "sending"
    /\ \E t \in Targets :
          /\ e_target[t] = "pending"
          /\ e_calls' = [e_calls EXCEPT ![t] = CountUp(e_calls[t], target_max_retries(t))]
          /\ e_most' = IF e_calls'[t] > e_most THEN e_calls'[t] ELSE e_most
          /\ \/ e_target' = [e_target EXCEPT ![t] = "returned"]
             \/ /\ e_calls[t] + 1 < target_max_retries(t)
                /\ UNCHANGED e_target
    /\ UNCHANGED <<e_pc, e_li, e_checked, e_attempt, e_robots, e_pages, e_renders,
                   e_users, e_alerts, e_ended>>
    /\ UNCHANGED outsideTerm

\* Every task of notify has ended: notify returns (or raises into the try
\* around it) and the loop over the alerts goes on, then the loop over the
\* users.
TermNotified ==
    /\ e_pc = "sending"
    /\ \A t \in Targets : e_target[t] # "pending"
    /\ e_target' = [t \in Targets |-> "none"]
    /\ e_calls' = [t \in Targets |-> 0]
    /\ IF e_alerts > 1
       THEN /\ e_alerts' = e_alerts - 1
            /\ e_pc' = "notify"
            /\ UNCHANGED e_users
       ELSE /\ e_alerts' = 0
            /\ e_users' = e_users - 1
            /\ e_pc' = "user"
    /\ UNCHANGED <<e_li, e_checked, e_attempt, e_robots, e_pages, e_renders, e_most,
                   e_ended>>
    /\ UNCHANGED outsideTerm

TermNext ==
    \/ TermRobots
    \/ TermFetch
    \/ TermRender
    \/ TermStore
    \/ TermUser
    \/ TermNotify
    \/ TermSend
    \/ TermNotified
    \/ TermLocaleEnds

(***************************************************************************)
(* Specifications                                                          *)
(***************************************************************************)

\* The scheduler after construction; no other component is called on its own.
Init == SchedInit /\ DiffIdle /\ NotifyIdle /\ ScrapeIdle /\ MatchIdle /\ SizeIdle /\ CycleIdle /\ ParseIdle /\ AuthIdle /\ StoreIdle /\ TermIdle

Spec == Init /\ [][SchedNext]_vars

\* The differ called with any two lists.
InitDiff == DiffInit /\ SchedIdle /\ NotifyIdle /\ ScrapeIdle /\ MatchIdle /\ SizeIdle /\ CycleIdle /\ ParseIdle /\ AuthIdle /\ StoreIdle /\ TermIdle

SpecDiff == InitDiff /\ [][DiffCall]_vars

\* One notify or send call for any user.
InitNotify == NotifyInit /\ SchedIdle /\ DiffIdle /\ ScrapeIdle /\ MatchIdle /\ SizeIdle /\ CycleIdle /\ ParseIdle /\ AuthIdle /\ StoreIdle /\ TermIdle

SpecNotify == InitNotify /\ [][NotifyNext]_vars

\* One scraper instance called repeatedly.
InitScrape == ScrapeInit /\ SchedIdle /\ DiffIdle /\ NotifyIdle /\ MatchIdle /\ SizeIdle /\ CycleIdle /\ ParseIdle /\ AuthIdle /\ StoreIdle /\ TermIdle

SpecScrape == InitScrape /\ [][ScrapeNext]_vars

\* The matcher called with any changes and preferences.
InitMatch == MatchInit /\ SchedIdle /\ DiffIdle /\ NotifyIdle /\ ScrapeIdle /\ SizeIdle /\ CycleIdle /\ ParseIdle /\ AuthIdle /\ StoreIdle /\ TermIdle

SpecMatch == InitMatch /\ [][MatchCall]_vars

\* _normalise_size applied to any two labels, then to its results.
InitSize == SizeInit /\ SchedIdle /\ DiffIdle /\ NotifyIdle /\ ScrapeIdle /\ MatchIdle /\ CycleIdle /\ ParseIdle /\ AuthIdle /\ StoreIdle /\ TermIdle

SpecSize == InitSize /\ [][SizeNext]_vars

\* The scheduler object from its construction on.
InitCycle ==
    CycleInit /\ SchedIdle /\ DiffIdle /\ NotifyIdle /\ ScrapeIdle /\ MatchIdle /\ SizeIdle /\ ParseIdle /\ AuthIdle /\ StoreIdle /\ TermIdle

SpecCycle == InitCycle /\ [][CycleNext]_vars

\* parse_products called with any page, or _parse_price with any text.
InitParse ==
    ParseInit /\ SchedIdle /\ DiffIdle /\ NotifyIdle /\ ScrapeIdle /\ MatchIdle /\
    SizeIdle /\ CycleIdle /\ AuthIdle /\ StoreIdle /\ TermIdle

SpecParse == InitParse /\ [][ParseNext]_vars

\* One unused token and the requests that verify it.
InitAuth ==
    AuthInit /\ SchedIdle /\ DiffIdle /\ NotifyIdle /\ ScrapeIdle /\ MatchIdle /\
    SizeIdle /\ CycleIdle /\ ParseIdle /\ StoreIdle /\ TermIdle

SpecAuth == InitAuth /\ [][AuthNext]_vars

\* The empty table; no run has started.
InitStore ==
    StoreInit /\ SchedIdle /\ DiffIdle /\ NotifyIdle /\ ScrapeIdle /\ MatchIdle /\
    SizeIdle /\ CycleIdle /\ ParseIdle /\ AuthIdle /\ TermIdle

SpecStore == InitStore /\ [][StoreNext]_vars

\* One cycle from its start; every call the cycle is at returns or fails in
\* finite time, so a step that can be taken is taken.
InitTerm ==
    TermInit /\ SchedIdle /\ DiffIdle /\ NotifyIdle /\ ScrapeIdle /\ MatchIdle /\
    SizeIdle /\ CycleIdle /\ ParseIdle /\ AuthIdle /\ StoreIdle

SpecTerm == InitTerm /\ [][TermNext]_vars /\ WF_vars(TermNext)

(***************************************************************************)
(* Claims about the scheduler (specification Spec)                         *)
(***************************************************************************)

\* The locale whose _process_locale is running or has just ended.
CurrentLocale == SchedulerLocales[li]

\* C1: in every locale cycle the stages run in the order fetch, diff,
\* persist, match, dispatch (match and dispatch alternating per subscriber),
\* and no subscriber is matched and no notifier invoked before the new
\* snapshot set of that cycle is upserted and committed to the store.
C1_StagesInOrder ==
    /\ \A j \in 1..Len(stages) :
          /\ stages[j] = "fetch" => j = 1
          /\ stages[j] = "diff" => j = 2 /\ stages[1] = "fetch"
          /\ stages[j] = "persist" => j = 3 /\ stages[2] = "diff"
          /\ stages[j] = "match" => j > 3 /\ stages[j - 1] \in {"persist", "dispatch"}
          /\ stages[j] = "dispatch" => j > 4 /\ stages[j - 1] = "match"
    /\ (\E j \in 1..Len(stages) : stages[j] \in {"match", "dispatch"})
          => /\ committed
             /\ bulk_upsert(store, new_products) = store
    /\ pc \in {"users", "user", "notify"}
          => /\ committed
             /\ bulk_upsert(store, new_products) = store

\* C1 witness: an alert is being dispatched after fetch, diff, persist and
\* match of the same locale cycle.
C1_Witness ==
    /\ pc = "notify"
    /\ stages = <<"fetch", "diff", "persist", "match", "dispatch">>
    /\ committed

\* C2: an exception raised while one locale is processed (fetch failure,
\* store error, error in the matching stage) is caught in _run_cycle: no
\* exception leaves _run_cycle, a cycle that has ended has processed both
\* locales whichever of them failed, and a further cycle can start.
C2_LocaleFailureIsolated ==
    /\ ~escaped
    /\ (pc = "idle" /\ entered # {}) => entered = Locales
    /\ (pc = "raised" /\ li < Len(SchedulerLocales)) => ENABLED LocaleError
    /\ pc = "idle" => ENABLED RunCycle

\* C2 witness: a cycle has ended in which en-GB raised and nb-NO was then
\* processed up to its commit.
C2_Witness ==
    /\ pc = "idle"
    /\ failed = {EN_GB}
    /\ entered = Locales
    /\ li = 2
    /\ committed

\* Every snapshot of `new` has in `old` a snapshot with the same URL,
\* locale, price and size set.
Unchanged(old, new) ==
    \A i \in 1..Len(new) : \E k \in 1..Len(old) :
        /\ old[k].url = new[i].url
        /\ old[k].locale = new[i].locale
        /\ old[k].price = new[i].price
        /\ old[k].available_sizes = new[i].available_sizes

\* The rows of a locale in a table.
RowsOf(rows, locale) == {row \in rows : row.locale = locale}

\* C3: a cycle that scrapes, for its locale, what the store holds from the
\* cycle that persisted last (same URLs, prices and size sets) has an empty
\* diff and dispatches nothing, also when that earlier cycle raised after
\* its commit.  In parts: once a cycle has committed snapshot set S the
\* store holds S, whatever happens in the rest of the cycle; the rows of a
\* locale change only in the commit of a cycle of that locale; the differ is
\* given the rows of the locale as they are in the store; and a scrape equal
\* to them yields no change, no match and no dispatch.
C3_UnchangedCatalogNoAlert ==
    /\ [](committed => bulk_upsert(store, new_products) = store)
    /\ [](pc \in {"diff", "upsert", "commit"}
            => Range(old_products) = RowsOf(store, CurrentLocale))
    /\ []((new_products # <<>> /\ Unchanged(old_products, new_products))
            => /\ changes = <<>>
               /\ pc \notin {"users", "user", "notify"}
               /\ \A j \in 1..Len(stages) : stages[j] \notin {"match", "dispatch"})
    /\ [][\A locale \in Locales :
            RowsOf(store', locale) # RowsOf(store, locale)
                => /\ pc = "commit"
                   /\ CurrentLocale = locale
                   /\ store' = bulk_upsert(store, new_products)]_vars

\* C3 witness: en-GB's last committing cycle raised after its commit, and
\* the cycle now ending scraped two products equal to the stored rows,
\* found no change and committed.
C3_Witness ==
    /\ pc = "returned"
    /\ CurrentLocale = EN_GB
    /\ EN_GB \in lost
    /\ committed
    /\ Len(new_products) = 2
    /\ new_products[1].url # new_products[2].url
    /\ Unchanged(old_products, new_products)
    /\ changes = <<>>

(***************************************************************************)
(* Claims about the differ (specification SpecDiff)                        *)
(***************************************************************************)

\* The entries of `old` with the (URL, locale) identity of product p.
SameIdentity(old, p) ==
    {k \in 1..Len(old) : old[k].url = p.url /\ old[k].locale = p.locale}

\* How many entries of `new` are equal to new[i] (1 unless `new` repeats it).
Occurrences(new, i) == Cardinality({j \in 1..Len(new) : new[j] = new[i]})

\* The returned changes of product p with the given change type.
ChangesOf(chs, p, change_type) ==
    SelectSeq(chs, LAMBDA c : c.new_state = p /\ c.change_type = change_type)

\* C9: diff emits for a product of `new` exactly one NEW change, with no
\* previous state and nothing else for that product, if and only if no
\* product of `old` has the same (URL, locale) pair; a product of `old` with
\* the same URL in the other locale, or the same name under another URL, is
\* not the same product; a product only in `old` emits nothing.
C9_NewIffIdentityAbsent ==
    d_pc = "done" =>
        /\ \A i \in 1..Len(d_new) :
              LET p == d_new[i]
                  news == ChangesOf(d_changes, p, CT_NEW)
                  others == ChangesOf(d_changes, p, CT_RESTOCK)
                            \o ChangesOf(d_changes, p, CT_PRICE_DROP)
              IN IF SameIdentity(d_old, p) = {}
                 THEN /\ Len(news) = Occurrences(d_new, i)
                      /\ \A n \in 1..Len(news) : news[n].previous_state = None
                      /\ others = <<>>
                 ELSE news = <<>>
        /\ \A c \in 1..Len(d_changes) :
              \E i \in 1..Len(d_new) : d_changes[c].new_state = d_new[i]

\* C10: for a product present in both `old` and `new`, diff emits exactly
\* one RESTOCK change, whose previous state is the old snapshot of that
\* product, if and only if some size label of the new snapshot is absent
\* from the old snapshot's size set (removals alone emit none; one size
\* added and another removed still emits it).  "The old snapshot" is the
\* entry of `old` with the product's (URL, locale) identity, taken where
\* `old` holds exactly one.
C10_RestockIffSizeGained ==
    d_pc = "done" =>
        \A i \in 1..Len(d_new) :
            LET p == d_new[i]
                same == SameIdentity(d_old, p)
                restocks == ChangesOf(d_changes, p, CT_RESTOCK)
            IN Cardinality(same) = 1 =>
                 LET old_snapshot == d_old[CHOOSE k \in same : TRUE]
                 IN IF p.available_sizes \ old_snapshot.available_sizes # {}
                    THEN /\ Len(restocks) = Occurrences(d_new, i)
                         /\ \A n \in 1..Len(restocks) :
                                restocks[n].previous_state = old_snapshot
                    ELSE restocks = <<>>

\* C11: for a product present in both `old` and `new`, diff emits exactly
\* one PRICE_DROP change if and only if the new price is strictly lower than
\* the price of the old snapshot of that product (equal or higher emits
\* none), whatever the restock check found: a lower price together with a
\* gained size gives two records, one RESTOCK and one PRICE_DROP.  "The old
\* snapshot" is read as in C10.
C11_PriceDropIffLower ==
    d_pc = "done" =>
        \A i \in 1..Len(d_new) :
            LET p == d_new[i]
                same == SameIdentity(d_old, p)
                drops == ChangesOf(d_changes, p, CT_PRICE_DROP)
                restocks == ChangesOf(d_changes, p, CT_RESTOCK)
            IN Cardinality(same) = 1 =>
                 LET old_snapshot == d_old[CHOOSE k \in same : TRUE]
                 IN /\ IF p.price < old_snapshot.price
                       THEN /\ Len(drops) = Occurrences(d_new, i)
                            /\ \A n \in 1..Len(drops) :
                                   drops[n].previous_state = old_snapshot
                       ELSE drops = <<>>
                    /\ (/\ p.price < old_snapshot.price
                        /\ p.available_sizes \ old_snapshot.available_sizes # {})
                          => /\ Len(drops) = Occurrences(d_new, i)
                             /\ Len(restocks) = Occurrences(d_new, i)

(***************************************************************************)
(* Claims about the matcher (specifications SpecMatch and SpecSize)        *)
(***************************************************************************)

\* The price gate as the claims state it: a ceiling is set and the new
\* snapshot's price is strictly greater.
PriceBlocks(change) ==
    /\ m_preferences.max_price # NoCeiling
    /\ change.new_state.price > m_preferences.max_price

\* The watchlist gate as the claims state it: terms are configured and no
\* term scores at least 80 against the product name, case put aside.
WatchBlocks(change) ==
    /\ m_preferences.watchlist_terms # <<>>
    /\ \A i \in 1..Len(m_preferences.watchlist_terms) :
          token_set_ratio(lower(change.new_state.name),
                          lower(m_preferences.watchlist_terms[i])) < 80

\* The returned alerts that reference the change.
AlertsFor(change) == SelectSeq(m_alerts, LAMBDA a : a.product_change = change)

\* The subscriber has a preferred size for the product's category and, in
\* normalized form, it is among the given size labels.
PreferredAmong(change, sizes) ==
    /\ change.new_state.category \in DOMAIN m_preferences.size_map
    /\ \E s \in sizes :
          _normalise_size(s)
              = _normalise_size(m_preferences.size_map[change.new_state.category])

\* The size labels of the new snapshot that the previous one does not have.
Restocked(change) ==
    change.new_state.available_sizes \ change.previous_state.available_sizes

Labels ==
    {"restock_exact_size", "restock", "price_drop_in_size", "price_drop",
     "new_product_in_size", "new_product"}

\* C13: the alert of a PRICE_DROP (NEW) change is labelled price_drop_in_size
\* (new_product_in_size) if and only if the size map has an entry for the
\* product's category and that size, in normalized form, is among the new
\* snapshot's sizes; otherwise price_drop (new_product); an entry for
\* another category has no effect; every label is one of the six.
C13_InSizeLabels ==
    m_pc = "done" =>
        \A i \in 1..Len(m_alerts) :
            LET change == m_alerts[i].product_change
                in_size == PreferredAmong(change, change.new_state.available_sizes)
            IN /\ m_alerts[i].matched_rule \in Labels
               /\ change.change_type = CT_PRICE_DROP =>
                     m_alerts[i].matched_rule =
                         IF in_size THEN "price_drop_in_size" ELSE "price_drop"
               /\ change.change_type = CT_NEW =>
                     m_alerts[i].matched_rule =
                         IF in_size THEN "new_product_in_size" ELSE "new_product"

\* C13 witness: two alerts for a subscriber who prefers M for jackets, a
\* price drop with Medium listed and a new product with only L listed.
C13_Witness ==
    /\ m_pc = "done"
    /\ "Jackets" \in DOMAIN m_preferences.size_map
    /\ Len(m_alerts) = 2
    /\ m_alerts[1].matched_rule = "price_drop_in_size"
    /\ m_alerts[1].product_change.new_state.available_sizes = {"Medium"}
    /\ m_alerts[2].matched_rule = "new_product"
    /\ m_alerts[2].product_change.new_state.available_sizes = {"L"}

\* C14: a change is dropped at the price gate if and only if a ceiling is
\* set and the new price is strictly greater than it; a price equal to the
\* ceiling passes; without a ceiling no change is dropped for its price.
\* (Stated on the changes the watchlist gate lets through.)
C14_PriceGate ==
    m_pc = "done" =>
        \A k \in 1..Len(m_changes) :
            /\ PriceBlocks(m_changes[k]) => AlertsFor(m_changes[k]) = <<>>
            /\ (~WatchBlocks(m_changes[k]) /\ ~PriceBlocks(m_changes[k]))
                  => AlertsFor(m_changes[k]) # <<>>

\* C14 witness: with the ceiling 1, a change at price 1 was alerted and a
\* change at price 2 was dropped.
C14_Witness ==
    /\ m_pc = "done"
    /\ m_preferences.max_price = 1
    /\ Len(m_changes) = 2
    /\ m_changes[1].new_state.price = 1
    /\ m_changes[2].new_state.price = 2
    /\ Len(m_alerts) = 1
    /\ m_alerts[1].product_change = m_changes[1]

\* C15: with an empty watchlist no change is dropped by the watchlist gate;
\* with a non-empty one a change passes if and only if some term scores at
\* least 80 against the product name, case put aside.  (Stated on the
\* changes the price gate lets through.)
C15_WatchlistGate ==
    m_pc = "done" =>
        \A k \in 1..Len(m_changes) :
            ~PriceBlocks(m_changes[k]) =>
                (AlertsFor(m_changes[k]) # <<>>)
                    = (\/ m_preferences.watchlist_terms = <<>>
                       \/ \E i \in 1..Len(m_preferences.watchlist_terms) :
                             token_set_ratio(
                                 lower(m_changes[k].new_state.name),
                                 lower(m_preferences.watchlist_terms[i])) >= 80)

\* C15 witness: with one term, the product scoring exactly 80 was alerted
\* and the product scoring 79 was dropped.
C15_Witness ==
    /\ m_pc = "done"
    /\ m_preferences.watchlist_terms = <<"jackett">>
    /\ Len(m_changes) = 2
    /\ m_changes[1].new_state.name = "Alpha Jacket"
    /\ m_changes[2].new_state.name = "beta pants"
    /\ m_changes[2].new_state.price = 1
    /\ Len(m_alerts) = 1
    /\ m_alerts[1].product_change = m_changes[1]

\* C16: match returns exactly one alert for each change that passes both
\* gates and none for a dropped one, in the order of the changes, each
\* alert referencing its change unmodified and carrying the given user id.
C16_OneAlertPerSurvivor ==
    m_pc = "done" =>
        LET survivors ==
                SelectSeq(m_changes, LAMBDA c : ~PriceBlocks(c) /\ ~WatchBlocks(c))
        IN /\ Len(m_alerts) = Len(survivors)
           /\ \A i \in 1..Len(m_alerts) :
                 /\ m_alerts[i].product_change = survivors[i]
                 /\ m_alerts[i].user_id = m_user_id

\* C16 witness: two different changes passed and two alerts came back for
\* subscriber b.
C16_Witness ==
    /\ m_pc = "done"
    /\ m_user_id = "b"
    /\ Len(m_changes) = 2
    /\ m_changes[1] # m_changes[2]
    /\ Len(m_alerts) = 2

\* The short codes under which SIZE_ALIASES knows a cleaned label: the
\* label itself when it is a code, the codes that list it as a synonym.
CodesOf(cleaned) ==
    {SIZE_ALIASES[i][1] : i \in {j \in 1..Len(SIZE_ALIASES) :
        cleaned = SIZE_ALIASES[j][1] \/ cleaned \in SIZE_ALIASES[j][2]}}

\* C17: _normalise_size maps a short code and each of its synonyms, in any
\* letter case and with surrounding whitespace, to that short code (M,
\* Medium and MED to one code, XL, Extra Large and X-Large to one code), an
\* unrecognized label to its trimmed lower-cased form, labels of two
\* different codes to different results, and is idempotent.
C17_NormaliseSize ==
    z_pc \in {"once", "twice"} =>
        /\ \A k \in 1..2 :
              LET cleaned == strip_lower(z_sizes[k])
              IN IF CodesOf(cleaned) # {}
                 THEN CodesOf(cleaned) = {z_normalised[k]}
                 ELSE z_normalised[k] = cleaned
        /\ (CodesOf(strip_lower(z_sizes[1])) # {}
            /\ CodesOf(strip_lower(z_sizes[2])) # {})
              => (z_normalised[1] = z_normalised[2])
                    = (CodesOf(strip_lower(z_sizes[1])) = CodesOf(strip_lower(z_sizes[2])))
        /\ (z_sizes[1] \in {"M", "Medium", "MED"} /\ z_sizes[2] \in {"M", "Medium", "MED"})
              => z_normalised[1] = z_normalised[2]
        /\ (z_sizes[1] \in {"XL", "Extra Large", "X-Large"}
            /\ z_sizes[2] \in {"XL", "Extra Large", "X-Large"})
              => z_normalised[1] = z_normalised[2]
        /\ z_pc = "twice" => z_again = z_normalised

\* C17 witness: " MEDIUM" and "MED" were both normalised to m, and m again
\* to m.
C17_Witness ==
    /\ z_pc = "twice"
    /\ z_sizes = <<" MEDIUM", "MED">>
    /\ z_normalised = <<"m", "m">>
    /\ z_again = <<"m", "m">>

(***************************************************************************)
(* Claims about the notifiers and the registry (specification SpecNotify)  *)
(***************************************************************************)

\* A send coroutine that has ended, by return or by exception.
Ended(channel) == n_task[channel].st \in {"true", "false", "raised"}

\* C4: NotifierRegistry.notify never raises; a channel whose send raised
\* has the entry false in the returned map, and the entry of every other
\* invoked channel is exactly the value its own send returned.
C4_NotifyNeverRaises ==
    /\ n_pc # "raised"
    /\ \A c \in DOMAIN n_results :
          /\ n_task[c].st = "raised" => n_results[c] = FALSE
          /\ n_task[c].st = "true" => n_results[c] = TRUE
          /\ n_task[c].st = "false" => n_results[c] = FALSE
    /\ n_pc = "done" => \A c \in Channels : n_sends[c] > 0 => c \in DOMAIN n_results

\* C4 witness: notify has returned although the browser-push send raised,
\* with what the mail and the mobile-push sends returned next to it.
C4_Witness ==
    /\ n_pc = "done"
    /\ n_task["web_push"].st = "raised"
    /\ n_task["email"].st = "true"
    /\ n_task["apns"].st = "false"
    /\ n_results["web_push"] = FALSE
    /\ n_results["email"] = TRUE
    /\ n_results["apns"] = FALSE

\* C5: notify invokes the mail channel exactly once, the browser-push
\* channel exactly once when the user has at least one web device and not
\* at all otherwise, the mobile-push channel likewise for ios devices; the
\* keys of the returned map are exactly the invoked channels.
C5_ChannelsByDevices ==
    (n_entry = "notify" /\ n_pc \in {"await", "done"}) =>
        /\ n_sends["email"] = 1
        /\ n_sends["web_push"] = IF has_platform(n_user, WEB) THEN 1 ELSE 0
        /\ n_sends["apns"] = IF has_platform(n_user, IOS) THEN 1 ELSE 0
        /\ n_pc = "done" => DOMAIN n_results = {c \in Channels : n_sends[c] > 0}

\* C5 witness: notify has returned for a user with ios devices only; the
\* map has the keys email and apns.
C5_Witness ==
    /\ n_pc = "done"
    /\ Len(n_user.devices) = 2
    /\ ~has_platform(n_user, WEB)
    /\ DOMAIN n_results = {"email", "apns"}
    /\ n_sends["web_push"] = 0

\* C6: the send of each of the three notifiers returns a boolean and never
\* raises, whatever the provider does and whatever fails while reading the
\* preferences, rendering or decoding the device's token.
C6_SendNeverRaises ==
    \A c \in Channels : n_task[c].st # "raised"

\* The platform a push channel serves.
PlatformOf(channel) == IF channel = "web_push" THEN WEB ELSE IOS

\* C7: when a push notifier's send has ended, every device of its platform
\* was attempted, even after an earlier device failed, no device of the
\* other platform was attempted by it, the result is true exactly when
\* every such device succeeded, and without a device of the platform the
\* result is true with no provider call.
C7_EveryDeviceAttempted ==
    \A c \in {"web_push", "apns"} :
        Ended(c) =>
            LET mine == Range(platform_devices(n_user, PlatformOf(c)))
            IN  /\ \A i \in mine : c \in n_dev[i].by
                /\ \A i \in DOMAIN n_dev \ mine : c \notin n_dev[i].by
                /\ (n_task[c].st = "true") = (\A i \in mine : n_dev[i].result = "true")
                /\ mine = {} => /\ n_task[c].st = "true"
                                /\ \A i \in DOMAIN n_dev : c \notin n_dev[i].by

(***************************************************************************)
(* Claims about the scraper (specification SpecScrape)                     *)
(***************************************************************************)

InsideInterval ==
    /\ s_prior > 0
    /\ s_start - s_prior < SCRAPE_INTERVAL_MINUTES * 60

\* The page and rendering requests the current call has issued.
PageRequests == {i \in DOMAIN s_out : s_out[i] \in {"page", "render"}}

\* C18: once a call has completed a full scrape, a later call that starts
\* before the cycle interval has elapsed issues no outbound request of any
\* kind, does not raise, and returns the empty list.
C18_ThrottledInsideInterval ==
    (s_pc # "idle" /\ InsideInterval) =>
        /\ s_out = <<>>
        /\ s_pc \in {"called", "returned"}
        /\ s_pc = "returned" => s_result = <<>>

\* C18 witness: a call that started half an interval after a full scrape
\* completed has returned.
C18_Witness ==
    /\ s_pc = "returned"
    /\ InsideInterval
    /\ s_start > s_prior
    /\ s_calls >= 2
    /\ s_result = <<>>

\* C19 as stated: any two consecutive outbound requests of the instance,
\* the robots request, the page request attempts and the rendering request,
\* start at least the minimum inter-request delay apart.
C19_RequestsPaced ==
    s_gap # NoGap => s_gap.seconds >= SCRAPE_MIN_DELAY_SECONDS

\* C20: no page or rendering request is issued, or about to be, before the
\* robots policy was requested; under a policy that disallows the path no
\* call issues a page or rendering request, none raises and each returns the
\* empty list; under a policy request that failed or was answered non-200
\* every call outside the throttle interval that has ended issued a page
\* request.
C20_RobotsPolicy ==
    /\ (PageRequests # {} \/ s_pc \in {"fetch", "playwright"}) => s_policy # "none"
    /\ s_policy = "disallow" =>
          /\ PageRequests = {}
          /\ s_pc \notin {"fetch", "playwright", "raised"}
          /\ s_pc = "returned" => s_result = <<>>
    /\ (s_policy \in {"missing", "error"} /\ s_pc \in {"returned", "raised"}
          /\ ~InsideInterval) =>
          PageRequests # {}

\* C20 witness: a later call on an instance whose policy disallows the path
\* has returned without any request.
C20_Witness ==
    /\ s_calls >= 2
    /\ s_policy = "disallow"
    /\ s_pc = "returned"
    /\ s_out = <<>>
    /\ s_result = <<>>

\* The page requests the current call has issued.
PageAttempts == {i \in DOMAIN s_out : s_out[i] = "page"}

\* C21: the instance issues the robots policy request at most once, whatever
\* it yielded; a call that goes on to the page request, or that ends because
\* of the policy, does so on the policy that one request yielded.
C21_RobotsRequestedOnce ==
    /\ s_robots_requests <= 1
    /\ s_robots_requests = (IF s_policy = "none" THEN 0 ELSE 1)
    /\ Cardinality({i \in DOMAIN s_out : s_out[i] = "robots"}) <= s_robots_requests
    /\ s_pc \in {"fetch", "playwright"} => s_policy \in {"allow", "missing", "error"}
    /\ s_exit = "robots" => s_policy = "disallow"

\* C21 witness: a later call on an instance whose policy request failed goes
\* on to the page request without a robots request of its own.
C21_Witness ==
    /\ s_calls >= 2
    /\ s_policy = "error"
    /\ s_robots_requests = 1
    /\ s_pc = "fetch"
    /\ s_out = <<>>

\* C22: one call of _fetch_html issues at most 3 page requests, none after
\* the first response; it has slept 2 s after the first failed attempt and
\* 4 s after the second and nothing after the third; it raises exactly when
\* three attempts failed.
C22_FetchRetries ==
    /\ Cardinality(PageAttempts) <= 3
    /\ Cardinality(PageAttempts) = s_failures + (IF s_light = "none" THEN 0 ELSE 1)
    /\ s_sleeps = SubSeq(<<2, 4>>, 1, IF s_failures < 2 THEN s_failures ELSE 2)
    /\ (s_exit = "fetch_exhausted") = (s_failures = 3)
    /\ s_exit = "fetch_exhausted" => (s_pc = "raised" /\ s_light = "none")

\* C22 witness: the third page request of a call was answered, after the
\* sleeps of 2 s and 4 s.
C22_Witness ==
    /\ s_failures = 2
    /\ s_light # "none"
    /\ s_sleeps = <<2, 4>>
    /\ Cardinality(PageAttempts) = 3

\* C24: within one call the rendering fetch is invoked at most once and only
\* after the page fetch returned markup without parseable products; a call
\* that has ended invoked it exactly when that happened; the products of a
\* call that invoked it are those parsed from the rendered markup.
C24_RenderingFallback ==
    /\ s_render_calls <= 1
    /\ s_render_calls = 1 => s_light = "empty"
    /\ s_pc \in {"returned", "raised"} => ((s_render_calls = 1) = (s_light = "empty"))
    /\ (s_pc = "returned" /\ s_render_calls = 1) =>
          s_result = parse_products(s_render_html)

\* C24 witness: a call whose page had no parseable product returned the
\* products of the rendered markup.
C24_Witness ==
    /\ s_pc = "returned"
    /\ s_light = "empty"
    /\ s_render_calls = 1
    /\ s_result # <<>>

(***************************************************************************)
(* Claims about one locale's cycle (specification Spec)                    *)
(***************************************************************************)

\* The snapshot of new_products that bulk_upsert leaves for its url and
\* locale: the last one of the list.
LastOfItsUrl(i) ==
    \A j \in DOMAIN new_products :
        (j > i) => \/ new_products[j].url # new_products[i].url
                   \/ new_products[j].locale # new_products[i].locale

\* C27: a _process_locale that returned after an empty scrape has gone
\* through the fetch stage only: nothing read from or written to the store,
\* no subscriber read, no dispatch; one that returned after a non-empty
\* scrape has committed the new snapshots, and with an empty diff it has
\* read no subscriber and dispatched nothing.
C27_EmptyScrapeAndEmptyDiff ==
    pc = "returned" =>
        /\ new_products = <<>> =>
              /\ stages = <<"fetch">>
              /\ ~committed
              /\ session = {}
              /\ matched = {}
              /\ dispatched = <<>>
        /\ new_products # <<>> =>
              /\ committed
              /\ store = session
              /\ \A i \in DOMAIN new_products :
                    LastOfItsUrl(i) => new_products[i] \in store
        /\ (new_products # <<>> /\ changes = <<>>) =>
              /\ stages = <<"fetch", "diff", "persist">>
              /\ matched = {}
              /\ dispatched = <<>>

\* C27 witness: a non-empty scrape with an empty diff has been committed and
\* _process_locale has returned.
C27_Witness ==
    /\ pc = "returned"
    /\ new_products # <<>>
    /\ changes = <<>>
    /\ committed
    /\ store # {}

\* The alerts passed to notify for the user, in the order of the calls.
DispatchedTo(user) ==
    LET mine == SelectSeq(dispatched, LAMBDA d : d.user = user)
    IN  [k \in DOMAIN mine |-> mine[k].alert]

\* C28: in a locale's cycle the matcher is called, and notify is called,
\* only for users whose region is the locale, and only with alerts of
\* changes observed in that locale; every user the loop has passed got each
\* alert of the matcher once, in order, whether or not a notify raised, and
\* the user the loop is at got the alerts before the current one.
C28_RegionAndDispatchOnce ==
    /\ \A u \in matched : u.region = SchedulerLocales[li]
    /\ \A k \in DOMAIN dispatched :
          /\ dispatched[k].user.region = SchedulerLocales[li]
          /\ dispatched[k].user \in matched
          /\ dispatched[k].alert.user_id = dispatched[k].user.id
          /\ dispatched[k].alert.product_change.new_state.locale
                = dispatched[k].user.region
    /\ \A k \in DOMAIN users :
          LET u == users[k]
              found == IF u.prefs_valid /\ u.region = SchedulerLocales[li]
                       THEN match(changes, u, u.id) ELSE <<>>
          IN  DispatchedTo(u)
                = IF k < ui THEN found
                  ELSE IF k = ui /\ pc = "notify" THEN SubSeq(found, 1, ai - 1)
                  ELSE <<>>

\* C28 witness: the directory held a user of each region, the user of the
\* locale got alerts and the loop over the users has ended.
C28_Witness ==
    /\ pc = "returned"
    /\ Len(users) = 2
    /\ users[1].region # users[2].region
    /\ dispatched # <<>>
    /\ ui = 3

(***************************************************************************)
(* Claims about retries and concurrency of the notifiers (SpecNotify)      *)
(***************************************************************************)

\* The delays a target has slept after the given number of failed calls:
\* 1 s after the first, 2 s after the second, none after the third.
DelaysAfter(failures) == SubSeq(<<1, 2>>, 1, IF failures < 2 THEN failures ELSE 2)

\* The calls and delays of one delivery target whose send is in the given
\* state ("true", "false", or not ended).
TargetWithinLimits(calls, sleeps, result) ==
    /\ calls <= 3
    /\ result = "false" => calls = 3
    /\ sleeps = DelaysAfter(IF result = "true" THEN calls - 1 ELSE calls)

\* A delivery target that was delivered to gets no further provider call.
NoCallAfterSuccess ==
    /\ n_task["email"].st = "true" => n_mail_calls' = n_mail_calls
    /\ \A i \in DOMAIN n_dev : n_dev[i].result = "true" => n_dev'[i] = n_dev[i]

\* C23: for the mail address and for every device, the notifier makes at
\* most 3 provider calls, answers false only after 3 failed calls, has slept
\* 1 s after the first failed call and 2 s after the second and nothing
\* after the third, and makes no call after a success.
C23_RetryCeilingAndDelays ==
    /\ [](/\ TargetWithinLimits(n_mail_calls, n_mail_sleeps, n_task["email"].st)
          /\ \A i \in DOMAIN n_dev :
                TargetWithinLimits(n_dev[i].calls, n_dev[i].sleeps, n_dev[i].result))
    /\ [][NoCallAfterSuccess]_vars

\* C23 witness: the third call of the mail provider succeeded and the third
\* call for an ios device was rejected.
C23_Witness ==
    /\ n_task["email"].st = "true"
    /\ n_mail_calls = 3
    /\ n_mail_sleeps = <<1, 2>>
    /\ \E i \in DOMAIN n_dev :
          /\ n_user.devices[i].platform = IOS
          /\ n_dev[i].result = "false"
          /\ n_dev[i].sleeps = <<1, 2>>

\* The next step of the channel's send coroutine.
EmailStep == EmailSendStart \/ EmailSendAttempt
WebPushStep == WebPushSendStart \/ WebPushSendToDevice \/ WebPushAttempt
ApnsStep == ApnsSendStart \/ ApnsSendToDevice \/ ApnsAttempt

\* C29: while notify awaits, the send of every invoked channel has been
\* started, and each one that has not ended can take its next step whatever
\* the state of the others and whichever task notify is awaiting; when
\* notify has returned the send of every invoked channel has ended and has
\* its entry in the result, and no other channel was started.
C29_ChannelsRace ==
    n_entry = "notify" =>
        /\ n_pc \in {"await", "done"} =>
              /\ \A c \in Range(n_tasks) : n_task[c].st # "none"
              /\ \A c \in Channels \ Range(n_tasks) : n_task[c].st = "none"
        /\ n_pc = "await" =>
              /\ n_task["email"].st \in {"ready", "run"} => ENABLED EmailStep
              /\ n_task["web_push"].st \in {"ready", "run"} => ENABLED WebPushStep
              /\ n_task["apns"].st \in {"ready", "run"} => ENABLED ApnsStep
        /\ n_pc = "done" =>
              /\ \A c \in Range(n_tasks) : Ended(c)
              /\ DOMAIN n_results = Range(n_tasks)

\* C29 witness: the send of the last channel has ended while notify still
\* awaits the first one, which is retrying, and the second has not ended.
C29_Witness ==
    /\ n_entry = "notify"
    /\ n_pc = "await"
    /\ n_wait = 1
    /\ n_tasks = <<"email", "web_push", "apns">>
    /\ n_task["apns"].st = "true"
    /\ n_task["web_push"].st = "run"
    /\ n_task["email"].st = "run"
    /\ n_mail_calls = 1

(***************************************************************************)
(* Claims about the driver and the manual trigger (specification SpecCycle)*)
(***************************************************************************)

\* C25 as stated: a cycle run by trigger_now calls the scrape of every
\* locale and none of these calls is cut short by the interval test.
C25_TriggerBypassesInterval ==
    (c_source = "manual" /\ c_ended = "complete") =>
        /\ c_entered = Locales
        /\ c_throttled = {}

\* C26 as stated: without a manual trigger, the job has not fired before
\* one interval has passed since start() and has fired once it has.
C26_JobFiresOnInterval ==
    (c_state = "running" /\ c_triggers = 0) =>
        (c_firings >= 1 <=> c_now >= c_started_at + SCRAPE_INTERVAL_MINUTES)

\* C30 as stated: a cycle in flight at stop() is not ended in the middle of
\* persistence, that is at bulk_upsert or at the commit that follows it.
C30_StopLetsPersistenceFinish ==
    c_cancelled_at \notin {"upsert", "commit"}

(***************************************************************************)
(* Claims about parsing (specification SpecParse)                          *)
(***************************************************************************)

\* A card that has a link with an href, a name in the name element or in
\* the link, and whose reading does not raise.
WellFormed(card) ==
    /\ card.link = "href"
    /\ ~card.faulty
    /\ (card.name # "" \/ card.link_text # "")

\* C31: parse_products returns for any page: the cards without link, href
\* or name and the cards whose parsing raises yield nothing, and every
\* other card yields its snapshot, in document order.
C31_MalformedCardSkipped ==
    (p_kind = "page" /\ p_pc = "done") =>
        LET good == SelectSeq(p_html, WellFormed) IN
        /\ Len(p_products) = Len(good)
        /\ \A k \in 1..Len(good) :
              /\ p_products[k].outcome = "snapshot"
              /\ p_products[k].url = good[k].href

\* C31 witness: a page whose first card raises and whose second card is
\* well formed was parsed, and the second card's snapshot is returned.
C31_Witness ==
    /\ p_kind = "page"
    /\ p_pc = "done"
    /\ Len(p_html) = 2
    /\ p_html[1].link = "href"
    /\ p_html[1].faulty
    /\ WellFormed(p_html[2])
    /\ Len(p_products) = 1
    /\ p_products[1].url = "u2"

\* The separator rule in words: with "." and "," both present "," is the
\* decimal separator and "." a thousands separator; with commas only, the
\* comma is the decimal separator iff there is exactly one and exactly two
\* characters follow it; spaces and thousands separators are dropped.
CommaIsDecimal(text) ==
    IF Contains(text, ".") THEN TRUE
    ELSE /\ Cardinality({i \in 1..Len(text) : text[i] = ","}) = 1
         /\ \E i \in 1..Len(text) : text[i] = "," /\ Len(text) - i = 2
DotIsThousands(text) == Contains(text, ",") /\ Contains(text, ".")
ReadBySeparatorRule(text) ==
    LET kept == SelectSeq(text, LAMBDA c :
                    /\ c # " "
                    /\ ~(c = "," /\ ~CommaIsDecimal(text))
                    /\ ~(c = "." /\ DotIsThousands(text))) IN
    [i \in 1..Len(kept) |-> IF kept[i] = "," THEN "." ELSE kept[i]]

C33_TokenAcceptedOnce ==
    /\ Cardinality(a_accepted) <= 1
    /\ \A r \in a_accepted : a_verdict_at[r] <= a_row.expires_at

(***************************************************************************)
(* Claims about the snapshot table (specification SpecStore)               *)
(***************************************************************************)

\* The runs whose diff has been computed.
Diffed == {k \in Slots : t_run[k].pc \in {"upsert", "commit"}}

\* C34 as stated: the `old` list of a run holds exactly the snapshots
\* scraped by the last run that committed before it, and a product of the
\* new list whose url that run did not scrape yields a NEW change.
C34_OldIsPreviousScrape ==
    \A k \in Diffed :
        /\ Range(t_run[k].old) = Range(t_run[k].prev)
        /\ \A i \in 1..Len(t_run[k].new) :
              (\A j \in 1..Len(t_run[k].prev) :
                    t_run[k].prev[j].url # t_run[k].new[i].url)
              => \E c \in 1..Len(t_run[k].changes) :
                    /\ t_run[k].changes[c].change_type = CT_NEW
                    /\ t_run[k].changes[c].product = t_run[k].new[i]

\* C36 as stated: the table never holds two rows of one url and locale.
C36_OneRowPerUrlAndLocale ==
    \A r1, r2 \in t_rows :
        (r1.url = r2.url /\ r1.locale = r2.locale) => r1 = r2

\* The step in which run k commits, and the one in which it is rolled back.
Commits(k) ==
    /\ t_run[k].pc = "commit"
    /\ t_run'[k].pc = "idle"
    /\ t_event'.how = "committed"
RollsBack(k) ==
    /\ t_run[k].pc # "idle"
    /\ t_run'[k].pc = "idle"
    /\ t_event'.how = "rolled_back"

\* What one step does to the table: nothing unless a run commits; the
\* commit of a run makes every snapshot of its list a row of the table.
AtomicStep ==
    /\ (\A k \in Slots : ~Commits(k)) => t_rows' = t_rows
    /\ \A k \in Slots : RollsBack(k) => t_rows' = t_rows
    /\ \A k \in Slots : Commits(k) =>
          \A i \in 1..Len(t_run[k].new) :
              \E row \in t_rows' :
                  /\ to_schema(row) = t_run[k].new[i]
                  /\ row.scraped_at = t_run[k].scraped_at

\* C39: no row written by a run is in the table while the run is in flight,
\* a run that fails or is cancelled before its commit leaves the table as
\* it is, and after the commit every snapshot of the run is in the table.
C39_SnapshotAtomic ==
    /\ [](\A k \in Slots : t_run[k].pc # "idle" =>
              \A row \in t_rows : row.scraped_at # t_run[k].scraped_at)
    /\ [][AtomicStep]_vars

\* C39 witness: a run was ended after its flush and before its commit, with
\* the rows of an earlier run in the table and none of its own.
C39_Witness ==
    /\ t_event = [how |-> "rolled_back", at |-> "commit"]
    /\ t_rows # {}
    /\ \A row \in t_rows : row.scraped_at < t_started
    /\ \A k \in Slots : t_run[k].pc = "idle"

(***************************************************************************)
(* Claim about the size vocabulary of a restock (specification SpecMatch)  *)
(***************************************************************************)

\* C38 as stated: an alert is labelled restock_exact_size only if the
\* preferred size, in normalized form, was not among the sizes of the
\* previous snapshot.
C38_ExactSizeWasUnavailable ==
    m_pc = "done" =>
        \A i \in 1..Len(m_alerts) :
            LET change == m_alerts[i].product_change IN
            m_alerts[i].matched_rule = "restock_exact_size" =>
                ~_sizes_match(m_preferences.size_map[change.new_state.category],
                              change.previous_state.available_sizes)

(***************************************************************************)
(* Claim about a failing subscriber (specification Spec)                   *)
(***************************************************************************)

\* C37 as stated: when the processing of a locale has ended after the
\* directory was read, every user of the list whose preferences validate
\* and whose region is the locale has been given to the matcher, whatever
\* happened with the users before them.
C37_SubscriberFailureIsolated ==
    pc \in {"returned", "raised"} =>
        \A k \in DOMAIN users :
            (users[k].prefs_valid /\ users[k].region = SchedulerLocales[li])
                => users[k] \in matched

(***************************************************************************)
(* Claim about the throttle under a periodic caller (specification         *)
(* SpecScrape)                                                             *)
(***************************************************************************)

\* C35 as stated: a call of scrape made exactly one interval after the call
\* before it, whose full scrape took some time, is not cut short by the
\* interval test.
C35_PeriodicCallNotThrottled ==
    (/\ s_periodic
     /\ s_prior > s_start - SCRAPE_INTERVAL_MINUTES * 60)
        => s_exit # "throttled"

(***************************************************************************)
(* Claim about termination (specification SpecTerm)                        *)
(***************************************************************************)

\* The calls made so far are within their ceilings.
CallsBounded ==
    /\ e_robots <= 1
    /\ e_pages <= SCRAPER_MAX_RETRIES
    /\ e_renders <= 1
    /\ \A t \in Targets : e_calls[t] <= target_max_retries(t)

\* C40: a started cycle reaches the end of _run_cycle with both locales
\* processed, and on the way makes per locale at most one robots request,
\* three page requests and one rendering request, and per alert at most
\* three provider calls for each delivery target.
C40_CycleTerminates ==
    /\ [](CallsBounded)
    /\ <>(e_pc = "done" /\ e_ended = Locales)

\* C40 witness: the cycle has ended; its second locale used the robots
\* request, all three page attempts and the rendering request, and some
\* target of some alert had three provider calls.
C40_Witness ==
    /\ e_pc = "done"
    /\ e_ended = Locales
    /\ e_robots = 1
    /\ e_pages = SCRAPER_MAX_RETRIES
    /\ e_renders = 1
    /\ e_most = 3
====
